---------------------------- MODULE Spec2Model ----------------------------
(* A state-machine model of the visitor-parking "new reservation" card      *)
(* (VisitorParkingNewReservationCard) and of the helpers of config-entry.ts *)
(* it relies on.  Strings are sequences of one-character strings, so that   *)
(* trimming, case folding, stripping and parsing are computed, not assumed. *)
EXTENDS Integers, Sequences, FiniteSets, TLC

(***************************************************************************)
(* Strings                                                                 *)
(***************************************************************************)

\* The empty string; also stands for an undefined string where the code only
\* tests truthiness (config_entry_id, _selectedEntryId, _resolvedIdentifier).
Empty == <<>>

\* An undefined field of a favorite (favorite.name, favorite.license_plate).
Undef == <<"undefined">>

LowerLetters == {"a", "b", "d", "m", "n", "o", "e"}

UpperLetters == {"A", "B", "D", "M", "N", "O", "E"}

Digits == {"0", "1", "2", "4", "7"}

Whitespace == {" "}

ToLowerChar(c) ==
  CASE c = "A" -> "a" [] c = "B" -> "b" [] c = "D" -> "d" [] c = "M" -> "m"
    [] c = "N" -> "n" [] c = "O" -> "o" [] c = "E" -> "e" [] OTHER -> c

ToUpperChar(c) ==
  CASE c = "a" -> "A" [] c = "b" -> "B" [] c = "d" -> "D" [] c = "m" -> "M"
    [] c = "n" -> "N" [] c = "o" -> "O" [] c = "e" -> "E" [] OTHER -> c

toLowerCase(s) == [i \in 1..Len(s) |-> ToLowerChar(s[i])]

toUpperCase(s) == [i \in 1..Len(s) |-> ToUpperChar(s[i])]

RECURSIVE trimStart(_)
trimStart(s) ==
  IF s # <<>> /\ Head(s) \in Whitespace THEN trimStart(Tail(s)) ELSE s

RECURSIVE trimEnd(_)
trimEnd(s) ==
  IF s # <<>> /\ s[Len(s)] \in Whitespace
  THEN trimEnd(SubSeq(s, 1, Len(s) - 1))
  ELSE s

trim(s) == trimEnd(trimStart(s))

\* value ?? ""
OrEmpty(s) == IF s = Undef THEN Empty ELSE s

(***************************************************************************)
(* config-entry.ts                                                         *)
(***************************************************************************)

IsSlugChar(c) == c \in LowerLetters \cup Digits

\* replaceAll(/[^a-z0-9]+/g, "_"): every maximal run of other characters
\* becomes one underscore.
RECURSIVE ReplaceRuns(_, _)
ReplaceRuns(s, inRun) ==
  IF s = <<>> THEN <<>>
  ELSE IF IsSlugChar(Head(s)) THEN <<Head(s)>> \o ReplaceRuns(Tail(s), FALSE)
  ELSE IF inRun THEN ReplaceRuns(Tail(s), TRUE)
  ELSE <<"_">> \o ReplaceRuns(Tail(s), TRUE)

RECURSIVE StripLeadingUnderscores(_)
StripLeadingUnderscores(s) ==
  IF s # <<>> /\ Head(s) = "_" THEN StripLeadingUnderscores(Tail(s)) ELSE s

RECURSIVE StripTrailingUnderscores(_)
StripTrailingUnderscores(s) ==
  IF s # <<>> /\ s[Len(s)] = "_"
  THEN StripTrailingUnderscores(SubSeq(s, 1, Len(s) - 1))
  ELSE s

\* The modelled alphabet holds no character with a compatibility
\* decomposition or a combining mark, so normalize("NFKD") and the removal
\* of U+0300..U+036F leave every modelled string as it is.
slugifyId(value) ==
  StripTrailingUnderscores(
    StripLeadingUnderscores(ReplaceRuns(toLowerCase(value), FALSE)))

\* The places where /\((?<id>[^)]+)\)\s*$/ matches: an opening parenthesis
\* at i, at least one character other than ")" up to the closing one at j,
\* and only whitespace after j.
TitleMatches(title) ==
  {m \in (1..Len(title)) \X (1..Len(title)) :
     /\ title[m[1]] = "("
     /\ m[2] > m[1] + 1
     /\ title[m[2]] = ")"
     /\ \A k \in (m[1] + 1)..(m[2] - 1) : title[k] # ")"
     /\ \A k \in (m[2] + 1)..Len(title) : title[k] \in Whitespace}

\* Returns Empty for undefined: the code maps an empty id to undefined too.
parseIdFromTitle(title) ==
  LET ms == TitleMatches(title) IN
  IF ms = {} THEN Empty
  ELSE LET first == CHOOSE m \in ms : \A o \in ms : m[1] <= o[1]
       IN trim(SubSeq(title, first[1] + 1, first[2] - 1))

\* The identifier of the title preferred to the declared one.
resolveIdentifierTitleFirst(entry) ==
  LET uniqueId == IF entry.unique_id = Undef THEN Empty ELSE trim(entry.unique_id)
      parsed == parseIdFromTitle(entry.title)
  IN IF parsed # Empty THEN parsed
     ELSE IF uniqueId # Empty /\ toLowerCase(uniqueId) # <<"n", "o", "n", "e">>
     THEN uniqueId
     ELSE entry.entry_id

\* entry.unique_id is a string, or Undef for null / undefined.
resolveIdentifierFromEntry(entry) ==
  LET uniqueId == IF entry.unique_id = Undef THEN Empty ELSE trim(entry.unique_id)
      parsed == parseIdFromTitle(entry.title)
  IN IF uniqueId # Empty /\ toLowerCase(uniqueId) # <<"n", "o", "n", "e">>
     THEN uniqueId
     ELSE IF parsed # Empty THEN parsed ELSE entry.entry_id

\* The trimmed unique_id when it is a string other than "" and "none";
\* Empty when the entry declares no identifier.
declaredIdentifier(entry) ==
  LET uniqueId == IF entry.unique_id = Undef THEN Empty ELSE trim(entry.unique_id)
  IN IF uniqueId # Empty /\ toLowerCase(uniqueId) # <<"n", "o", "n", "e">>
     THEN uniqueId
     ELSE Empty

(***************************************************************************)
(* Number(indexValue) for the values a <select> can carry                  *)
(***************************************************************************)

NaN == [finite |-> FALSE, value |-> 0]

DigitValue(c) ==
  CASE c = "0" -> 0 [] c = "1" -> 1 [] c = "2" -> 2 [] c = "4" -> 4
    [] c = "7" -> 7 [] OTHER -> 0

RECURSIVE DigitsValue(_)
DigitsValue(s) ==
  IF s = <<>> THEN 0
  ELSE 10 * DigitsValue(SubSeq(s, 1, Len(s) - 1)) + DigitValue(s[Len(s)])

AllDigits(s) == s # <<>> /\ \A i \in 1..Len(s) : s[i] \in Digits

\* Number(): surrounding whitespace is ignored, the empty string is 0, an
\* optionally signed run of decimal digits is its value, anything else NaN.
Number(s) ==
  LET t == trim(s) IN
  IF t = <<>> THEN [finite |-> TRUE, value |-> 0]
  ELSE IF AllDigits(t) THEN [finite |-> TRUE, value |-> DigitsValue(t)]
  ELSE IF Head(t) = "-" /\ AllDigits(Tail(t))
       THEN [finite |-> TRUE, value |-> 0 - DigitsValue(Tail(t))]
  ELSE NaN

(***************************************************************************)
(* The draft / favorite reconciliation of the new-reservation card.        *)
(* favs is the value of the _favorites getter; d is the draft state        *)
(*   [favoriteDraft, nameDraft, licensePlateDraft, addToFavorites,         *)
(*    updateFavorite].                                                      *)
(* An index is 0-based as in the code; NoIndex stands for undefined.        *)
(***************************************************************************)

NoIndex == -1

normalizeName(value) == toLowerCase(trim(value))

IsPlateChar(c) == c \in UpperLetters \cup Digits

\* replace instead of replaceAll: only the first character outside
\* [A-Z0-9] is removed.
RECURSIVE RemoveFirstOther(_)
RemoveFirstOther(s) ==
  IF s = <<>> THEN <<>>
  ELSE IF IsPlateChar(Head(s)) THEN <<Head(s)>> \o RemoveFirstOther(Tail(s))
  ELSE Tail(s)

normalizePlateFirstOnly(value) == RemoveFirstOther(toUpperCase(trim(value)))

normalizePlate(value) == SelectSeq(toUpperCase(trim(value)), IsPlateChar)

\* The fields of the favorite compared as they are stored.
favoriteMatchesRaw(favorite, name, plate) ==
  /\ OrEmpty(favorite.name) = normalizeName(name)
  /\ OrEmpty(favorite.license_plate) = normalizePlate(plate)

favoriteMatchesDraft(favorite, name, plate) ==
  /\ normalizeName(OrEmpty(favorite.name)) = normalizeName(name)
  /\ normalizePlate(OrEmpty(favorite.license_plate)) = normalizePlate(plate)

\* The last matching favorite instead of the first.
findLastFavoriteIndexByDraft(favs, name, plate) ==
  IF trim(name) = Empty \/ trim(plate) = Empty THEN NoIndex
  ELSE LET hits == {i \in 0..(Len(favs) - 1) :
                      favoriteMatchesDraft(favs[i + 1], name, plate)}
       IN IF hits = {} THEN NoIndex
          ELSE CHOOSE i \in hits : \A j \in hits : i >= j

findFavoriteIndexByDraft(favs, name, plate) ==
  IF trim(name) = Empty \/ trim(plate) = Empty THEN NoIndex
  ELSE LET hits == {i \in 0..(Len(favs) - 1) :
                      favoriteMatchesDraft(favs[i + 1], name, plate)}
       IN IF hits = {} THEN NoIndex
          ELSE CHOOSE i \in hits : \A j \in hits : i <= j

selectedFavoriteIndex(favs, d) ==
  IF d.favoriteDraft = Empty THEN NoIndex
  ELSE LET index == Number(d.favoriteDraft) IN
       IF ~index.finite \/ index.value < 0 \/ index.value >= Len(favs)
       THEN NoIndex
       ELSE index.value

\* _selectedFavorite is defined (not undefined).
hasSelectedFavorite(favs, d) == selectedFavoriteIndex(favs, d) # NoIndex

selectedFavorite(favs, d) == favs[selectedFavoriteIndex(favs, d) + 1]

\* favorite.id is [kind |-> "number" | "string" | "undefined", text |-> ...];
\* the result is the id as a string, Empty for undefined.
selectedFavoriteId(favs, d) ==
  IF ~hasSelectedFavorite(favs, d) THEN Empty
  ELSE LET id == selectedFavorite(favs, d).id IN
       IF id.kind = "number" THEN id.text
       ELSE IF id.kind = "string" /\ trim(id.text) # Empty THEN trim(id.text)
       ELSE Empty

draftMatchesExistingFavorite(favs, d) ==
  findFavoriteIndexByDraft(favs, d.nameDraft, d.licensePlateDraft) # NoIndex

selectedFavoriteChanged(favs, d) ==
  IF ~hasSelectedFavorite(favs, d) THEN FALSE
  ELSE ~favoriteMatchesDraft(selectedFavorite(favs, d), d.nameDraft,
                             d.licensePlateDraft)

selectedFavoriteNameChanged(favs, d) ==
  IF ~hasSelectedFavorite(favs, d) THEN FALSE
  ELSE normalizeName(OrEmpty(selectedFavorite(favs, d).name))
         # normalizeName(d.nameDraft)

selectedFavoritePlateChanged(favs, d) ==
  IF ~hasSelectedFavorite(favs, d) THEN FALSE
  ELSE normalizePlate(OrEmpty(selectedFavorite(favs, d).license_plate))
         # normalizePlate(d.licensePlateDraft)

selectedFavoriteChangedBoth(favs, d) ==
  selectedFavoriteNameChanged(favs, d) /\ selectedFavoritePlateChanged(favs, d)

\* Add offered whatever is selected.
showAddIgnoringSelection(favs, d) ==
  /\ trim(d.nameDraft) # Empty /\ trim(d.licensePlateDraft) # Empty
  /\ ~draftMatchesExistingFavorite(favs, d)

\* Add offered even for a draft that equals a favorite.
showAddIgnoringMatch(favs, d) ==
  IF trim(d.nameDraft) = Empty \/ trim(d.licensePlateDraft) = Empty THEN FALSE
  ELSE ~(hasSelectedFavorite(favs, d) /\ ~selectedFavoriteChangedBoth(favs, d))

showAddToFavorites(favs, d) ==
  IF trim(d.nameDraft) = Empty \/ trim(d.licensePlateDraft) = Empty THEN FALSE
  ELSE IF hasSelectedFavorite(favs, d) /\ ~selectedFavoriteChangedBoth(favs, d)
       THEN FALSE
  ELSE ~draftMatchesExistingFavorite(favs, d)

maybeResetFavoriteSelection(favs, d) ==
  IF ~hasSelectedFavorite(favs, d) THEN d
  ELSE IF ~selectedFavoriteChangedBoth(favs, d) THEN d
  ELSE [d EXCEPT !.favoriteDraft = Empty, !.updateFavorite = FALSE]

draftDuplicatesOtherFavorite(favs, d) ==
  LET selectedIndex == selectedFavoriteIndex(favs, d)
      matchingIndex == findFavoriteIndexByDraft(favs, d.nameDraft,
                                                d.licensePlateDraft)
  IN IF selectedIndex = NoIndex THEN FALSE
     ELSE matchingIndex # NoIndex /\ matchingIndex # selectedIndex

\* Update offered for any change, a change of both fields included.
offerUpdateOnAnyChange(favs, d) ==
  IF ~hasSelectedFavorite(favs, d) THEN FALSE
  ELSE selectedFavoriteChanged(favs, d)

offerUpdateFavorite(favs, d) ==
  IF ~hasSelectedFavorite(favs, d) THEN FALSE
  ELSE selectedFavoriteChanged(favs, d) /\ ~selectedFavoriteChangedBoth(favs, d)

\* Update allowed whatever other favorite the draft equals.
canUpdateIgnoringDuplicates(favs, d) ==
  /\ offerUpdateFavorite(favs, d)
  /\ trim(d.nameDraft) # Empty /\ trim(d.licensePlateDraft) # Empty

\* Update allowed with an empty draft field.
canUpdateWithEmptyDraft(favs, d) ==
  IF ~offerUpdateFavorite(favs, d) THEN FALSE
  ELSE ~draftDuplicatesOtherFavorite(favs, d)

canUpdateFavorite(favs, d) ==
  IF ~offerUpdateFavorite(favs, d) THEN FALSE
  ELSE IF trim(d.nameDraft) = Empty \/ trim(d.licensePlateDraft) = Empty
       THEN FALSE
  ELSE ~draftDuplicatesOtherFavorite(favs, d)

syncFavoriteToggles(favs, d) ==
  IF hasSelectedFavorite(favs, d)
  THEN [d EXCEPT
          !.addToFavorites = IF ~showAddToFavorites(favs, d) THEN FALSE ELSE @,
          !.updateFavorite = IF ~canUpdateFavorite(favs, d) THEN FALSE ELSE @]
  ELSE [d EXCEPT
          !.updateFavorite = FALSE,
          !.addToFavorites = IF ~showAddToFavorites(favs, d) THEN FALSE ELSE @]

\* A null element of the favorites array: reading a property of it throws.
NullFavorite == [id |-> [kind |-> "null", text |-> Empty],
                 name |-> Undef,
                 license_plate |-> Undef]

\* An element that is no object (a number): its properties read as undefined.
NumberElement == [id |-> [kind |-> "undefined", text |-> Empty],
                  name |-> Undef,
                  license_plate |-> Undef]

selectFavorite(favs, d, indexValue) ==
  LET d1 == [d EXCEPT !.favoriteDraft = indexValue,
                      !.addToFavorites = FALSE,
                      !.updateFavorite = FALSE]
      index == Number(indexValue)
  IN IF indexValue = Empty
     THEN syncFavoriteToggles(favs, [d1 EXCEPT !.nameDraft = Empty,
                                               !.licensePlateDraft = Empty])
     ELSE IF ~index.finite \/ index.value < 0 \/ index.value >= Len(favs)
          THEN d1
     ELSE IF favs[index.value + 1] = NullFavorite THEN d1
     ELSE syncFavoriteToggles(favs,
            [d1 EXCEPT
               !.nameDraft = trim(OrEmpty(favs[index.value + 1].name)),
               !.licensePlateDraft =
                  trim(OrEmpty(favs[index.value + 1].license_plate))])

(***************************************************************************)
(* The environment: accounts, entities and favorites the host can supply   *)
(***************************************************************************)

\* Time is counted in units of 1000 ms.
Cooldown == 30

\* _lastResolveAttempt === undefined
NoTime == -1

MaxTime == 31

\* In-flight requests of one kind (config_entries/get, entity registry,
\* identity lookups) the model follows at once.
MaxInFlight == 2

TickSteps == {30, 31}

IdA == <<"A">>

IdB == <<"B">>

\* "a (7)": no unique_id, the identifier is parsed from the title.
EntryA == [entry_id |-> IdA, title |-> <<"a", " ", "(", "7", ")">>,
           unique_id |-> Undef]

\* declared identifier "42"
EntryB == [entry_id |-> IdB, title |-> <<"b">>, unique_id |-> <<"4", "2">>]

EntryPool == {EntryA, EntryB}

PoolEntry(entryId) == CHOOSE e \in EntryPool : e.entry_id = entryId

\* What config_entries/get can answer over time.
ServerLists == {<<>>, <<EntryA>>, <<EntryA, EntryB>>}

OverrideEntity == <<"sensor.", "o", "_favorites">>

\* A configured override that names no entity of hass.states.
MissingEntity == <<"sensor.", "x", "_favorites">>

RegistryEntity == <<"sensor.", "r", "_favorites">>

DerivedEntity(slugId) == <<"sensor.visitor_parking_">> \o slugId \o <<"_favorites">>

\* What config/entity_registry/list can answer.
ServerRegistry == <<[entity_id |-> RegistryEntity, config_entry_id |-> IdB]>>

Mom == [id |-> [kind |-> "number", text |-> <<"1">>],
        name |-> <<"M", "o", "m">>,
        license_plate |-> <<"A", "B", "-", "1", "2">>]

Dad == [id |-> [kind |-> "number", text |-> <<"2">>],
        name |-> <<"D", "a", "d">>,
        license_plate |-> <<"D", "E", "-", "4", "7">>]

\* A second record of the same person under another plate.
Mom2 == [id |-> [kind |-> "string", text |-> <<"4">>],
         name |-> <<"m", "o", "m">>,
         license_plate |-> <<"D", "E", "4", "7">>]

\* A record whose id is still unknown.
Anon == [id |-> [kind |-> "undefined", text |-> Empty],
         name |-> <<"N", "a", "n">>,
         license_plate |-> Undef]

\* A record without a name.
Unnamed == [id |-> [kind |-> "number", text |-> <<"7">>],
            name |-> Undef,
            license_plate |-> <<"A", "B", "1", "2">>]

\* A record that repeats Mom in another spelling.
MomDup == [id |-> [kind |-> "number", text |-> <<"2">>],
           name |-> <<"m", "o", "m", " ">>,
           license_plate |-> <<"a", "b", " ", "1", "2">>]

\* The configuration of the active reservations card.
CardConfig(entryId, entity) ==
  [defined |-> TRUE, config_entry_id |-> entryId, entity |-> entity]

NoCardConfig == [defined |-> FALSE, config_entry_id |-> Empty,
                 entity |-> Empty]

NoConfig == [defined |-> FALSE, config_entry_id |-> Empty,
             favorites_entity |-> Empty]

Config(entryId, favoritesEntity) ==
  [defined |-> TRUE, config_entry_id |-> entryId,
   favorites_entity |-> favoritesEntity]

NoHass == [defined |-> FALSE, is_admin |-> FALSE, callWS |-> FALSE]

Hass(isAdmin, hasCallWS) ==
  [defined |-> TRUE, is_admin |-> isAdmin, callWS |-> hasCallWS]

\* hass.states[entityId] === undefined
AbsentState == [present |-> FALSE, state |-> "", isArray |-> FALSE,
                items |-> <<>>]

FavoritesState(items) == [present |-> TRUE, state |-> "1", isArray |-> TRUE,
                          items |-> items]

\* An entity whose attributes hold no favorites array.
NoArrayState == [present |-> TRUE, state |-> "1", isArray |-> FALSE,
                 items |-> <<>>]

\* An entity in the given state whose attributes hold a favorites array.
StateWithFavorites(state, items) ==
  [present |-> TRUE, state |-> state, isArray |-> TRUE, items |-> items]

NoCall == [service |-> "none", name |-> Empty, license_plate |-> Empty,
           favorite_id |-> Empty, config_entry_id |-> Empty]

NoSubmit == [licensePlate |-> Empty, selectedFavoriteId |-> Empty,
             shouldUpdateFavorite |-> FALSE, shouldAddFavorite |-> FALSE]

NoSnapshot == [favorites |-> <<>>, name |-> Empty, plate |-> Empty,
               selectedIndex |-> NoIndex, entryId |-> Empty,
               reservation |-> "none"]

(***************************************************************************)
(* State                                                                   *)
(***************************************************************************)

VARIABLES
  hass,                   \* the hass property (user and capabilities)
  states,                 \* hass.states: entity id -> entity state
  _config,
  changedConfig,          \* changedProps.has("_config") of the pending update
  prevConfig,             \* changedProps.get("_config")
  updatePending,          \* a reactive update is scheduled
  _favoriteDraft, _nameDraft, _licensePlateDraft,
  _addToFavorites, _updateFavorite,
  _submitting, _deletingFavorite, _updatingFavorite,
  _resolvingService, _resolvedConfigEntryId, _resolvedIdentifier,
  _entries, _entriesLoaded,
  _entityRegistry, _entityRegistryLoaded,
  _selectedEntryId,
  _lastResolveAttempt, _lastResolveEntryId,
  now,                    \* Date.now()
  serverEntries,          \* the host's current account list
  entryLoads,             \* _loadEntries calls awaiting their answer
  registryLoads,          \* _loadEntityRegistry calls awaiting their answer
  lookups,                \* entry ids of the _resolveIdFromConfigEntry calls in flight
  submitPc,               \* where _submit stands: idle, reservation, update, create
  submitLocals,           \* the constants _submit computed before its first await
  deletePc,               \* where _deleteFavorite stands: idle, delete
  call,                   \* the hass.callService awaiting its answer
  lastNotify,             \* the hass-notification of the last submit or delete
  \* history, read by the properties only
  attemptAt,              \* the last lookup issued since the active account last changed
  picked,                 \* _selectedEntryId is the user's pick in the picker
  submitSnapshot,         \* favorites and draft when the running submit started
  draftAccount,           \* the active account when the draft was last edited
  \* the card editor (visitor-parking-new-reservation-card-editor)
  editor,                 \* its hass, _config, _entries, _entriesLoaded
  editorLoads,            \* its _loadEntries calls awaiting their answer
  emitted,                \* config-changed events the host has not handled yet
  dispatched,             \* how many config-changed events were dispatched
  \* the active reservations card (visitor-parking-card)
  activeCard,             \* its hass, _config, _entries, ..., _endingReservationIds
  activeLoads,            \* its requests awaiting their answer
  deletes                 \* its delete_reservation calls awaiting their answer

cardVars ==
  <<hass, states, _config, changedConfig, prevConfig, updatePending,
    _favoriteDraft, _nameDraft, _licensePlateDraft, _addToFavorites,
    _updateFavorite, _submitting, _deletingFavorite, _updatingFavorite,
    _resolvingService, _resolvedConfigEntryId, _resolvedIdentifier,
    _entries, _entriesLoaded, _entityRegistry, _entityRegistryLoaded,
    _selectedEntryId, _lastResolveAttempt, _lastResolveEntryId>>

envVars ==
  <<now, serverEntries, entryLoads, registryLoads, lookups, submitPc,
    submitLocals, deletePc, call, lastNotify>>

historyVars == <<attemptAt, picked, submitSnapshot, draftAccount>>

editorVars == <<editor, editorLoads, emitted, dispatched>>

activeVars == <<activeCard, activeLoads, deletes>>

\* The new reservation card with its environment.
reservationCardVars == <<cardVars, envVars, historyVars>>

vars == <<reservationCardVars, editorVars, activeVars>>

\* The @state and @property fields: a change of one schedules an update.
reactive ==
  <<hass, states, _config, _favoriteDraft, _nameDraft, _licensePlateDraft,
    _addToFavorites, _updateFavorite, _submitting, _deletingFavorite,
    _updatingFavorite, _resolvingService, _resolvedConfigEntryId,
    _resolvedIdentifier, _entries, _entriesLoaded, _entityRegistry,
    _entityRegistryLoaded, _selectedEntryId>>

(***************************************************************************)
(* Getters of the card                                                     *)
(***************************************************************************)

\* A manual selection taking precedence over the pinned account.
activeEntryIdSelectionFirst(config, selectedEntryId, entriesLoaded, entries) ==
  IF selectedEntryId # Empty THEN selectedEntryId
  ELSE IF config.config_entry_id # Empty THEN config.config_entry_id
  ELSE IF entriesLoaded /\ Len(entries) = 1 THEN entries[1].entry_id
  ELSE Empty

activeEntryId(config, selectedEntryId, entriesLoaded, entries) ==
  IF config.config_entry_id # Empty THEN config.config_entry_id
  ELSE IF selectedEntryId # Empty THEN selectedEntryId
  ELSE IF entriesLoaded /\ Len(entries) = 1 THEN entries[1].entry_id
  ELSE Empty

_activeEntryId ==
  activeEntryId(_config, _selectedEntryId, _entriesLoaded, _entries)

\* Empty for undefined.
entryIdentifier(entries, entryId) ==
  IF entryId = Empty THEN Empty
  ELSE LET found == {i \in 1..Len(entries) : entries[i].entry_id = entryId}
       IN IF found = {} THEN Empty
          ELSE resolveIdentifierFromEntry(
                 entries[CHOOSE i \in found : \A j \in found : i <= j])

\* The cached identifier used without looking at the account it belongs to.
slugOfAnyAccount(entryId, entries, resolvedConfigEntryId, resolvedIdentifier) ==
  IF entryId = Empty THEN Empty
  ELSE IF entryIdentifier(entries, entryId) # Empty
       THEN entryIdentifier(entries, entryId)
  ELSE resolvedIdentifier

slug(entryId, entries, resolvedConfigEntryId, resolvedIdentifier) ==
  IF entryId = Empty THEN Empty
  ELSE IF entryIdentifier(entries, entryId) # Empty
       THEN entryIdentifier(entries, entryId)
  ELSE IF resolvedConfigEntryId = entryId /\ resolvedIdentifier # Empty
       THEN resolvedIdentifier
  ELSE Empty

_slug == slug(_activeEntryId, _entries, _resolvedConfigEntryId,
              _resolvedIdentifier)

stateOf(entityId) ==
  IF entityId # Empty /\ hass.defined /\ entityId \in DOMAIN states
  THEN states[entityId]
  ELSE AbsentState

IsFavoritesSensor(entityId) ==
  /\ Len(entityId) >= 2
  /\ Head(entityId) \in {"sensor.", "sensor.visitor_parking_"}
  /\ entityId[Len(entityId)] = "_favorites"

favoritesEntityFromRegistry(entryId, registryLoaded, registry) ==
  IF entryId = Empty \/ ~registryLoaded THEN Empty
  ELSE LET found == {i \in 1..Len(registry) :
                       /\ registry[i].config_entry_id = entryId
                       /\ IsFavoritesSensor(registry[i].entity_id)}
       IN IF found = {} THEN Empty
          ELSE registry[CHOOSE i \in found : \A j \in found : i <= j].entity_id

_favoritesEntityId ==
  LET override == trim(_config.favorites_entity)
      registryEntity ==
        favoritesEntityFromRegistry(_activeEntryId, _entityRegistryLoaded,
                                    _entityRegistry)
  IN IF override # Empty /\ stateOf(override).present THEN override
     ELSE IF registryEntity # Empty THEN registryEntity
     ELSE IF _slug = Empty THEN Empty
     ELSE DerivedEntity(slugifyId(_slug))

_favoritesState == stateOf(_favoritesEntityId)

_favorites ==
  IF _favoritesState.present /\ _favoritesState.isArray
  THEN _favoritesState.items
  ELSE <<>>

\* favorite.name read on a null element (_favoriteLabel in render,
\* _favoriteMatchesDraft in matching) throws a TypeError.
favoriteAccessThrows(favs) == \E i \in 1..Len(favs) : favs[i] = NullFavorite

\* A deletion in flight not counted as busy.
busyIgnoringDelete == _submitting \/ _updatingFavorite

_busy == _submitting \/ _deletingFavorite \/ _updatingFavorite

draft ==
  [favoriteDraft |-> _favoriteDraft, nameDraft |-> _nameDraft,
   licensePlateDraft |-> _licensePlateDraft,
   addToFavorites |-> _addToFavorites, updateFavorite |-> _updateFavorite]

_showAddToFavorites == showAddToFavorites(_favorites, draft)

_offerUpdateFavorite == offerUpdateFavorite(_favorites, draft)

_canUpdateFavorite == canUpdateFavorite(_favorites, draft)

_selectedFavoriteId == selectedFavoriteId(_favorites, draft)

\* What render() computes for the controls.
showEntryPicker ==
  _config.config_entry_id = Empty /\ _entriesLoaded /\ Len(_entries) > 1

entryLocked == showEntryPicker /\ _activeEntryId = Empty

missingFavorites ==
  /\ _activeEntryId # Empty
  /\ \/ ~_favoritesState.present
     \/ _favoritesState.state \in {"unavailable", "unknown"}

\* Delete offered next to an offered update.
showDeleteDespiteUpdate == _selectedFavoriteId # Empty /\ ~_showAddToFavorites

showDeleteFavorite ==
  _selectedFavoriteId # Empty /\ ~_offerUpdateFavorite /\ ~_showAddToFavorites

rendered == hass.defined /\ _config.defined /\ ~updatePending

(***************************************************************************)
(* Shared pieces of the handlers                                           *)
(***************************************************************************)

\* Lit schedules an update when a reactive field changes.
ScheduleUpdate == updatePending' = (updatePending \/ reactive' # reactive)

SetDraft(d) ==
  /\ _favoriteDraft' = d.favoriteDraft
  /\ _nameDraft' = d.nameDraft
  /\ _licensePlateDraft' = d.licensePlateDraft
  /\ _addToFavorites' = d.addToFavorites
  /\ _updateFavorite' = d.updateFavorite

draftVars ==
  <<_favoriteDraft, _nameDraft, _licensePlateDraft, _addToFavorites,
    _updateFavorite>>

resolveVars ==
  <<_resolvedConfigEntryId, _resolvedIdentifier, _lastResolveAttempt,
    _lastResolveEntryId>>

EmptyDraft ==
  [favoriteDraft |-> Empty, nameDraft |-> Empty, licensePlateDraft |-> Empty,
   addToFavorites |-> FALSE, updateFavorite |-> FALSE]

setSelectedEntry(entryId) ==
  /\ _selectedEntryId' = entryId
  /\ _resolvedConfigEntryId' = Empty
  /\ _resolvedIdentifier' = Empty
  /\ _lastResolveAttempt' = NoTime
  /\ _lastResolveEntryId' = Empty
  /\ SetDraft(EmptyDraft)

\* The history of lookups: forgotten when the active account changes,
\* extended when a lookup is issued.
NoAttempt == [entryId |-> Empty, at |-> NoTime]

Observe ==
  /\ attemptAt' =
       IF Len(lookups') > Len(lookups)
       THEN [entryId |-> lookups'[Len(lookups')], at |-> now]
       ELSE IF _activeEntryId' # _activeEntryId THEN NoAttempt
       ELSE attemptAt
  /\ UNCHANGED <<editorVars, activeVars>>

(***************************************************************************)
(* The host: configuration, hass, time, the account list                   *)
(***************************************************************************)

setConfig(config) ==
  /\ _config' = config
  /\ changedConfig' = TRUE
  /\ prevConfig' = IF changedConfig THEN prevConfig ELSE _config
  /\ updatePending' = TRUE
  /\ UNCHANGED <<hass, states, draftVars, _submitting, _deletingFavorite,
                 _updatingFavorite, _resolvingService, resolveVars, _entries,
                 _entriesLoaded, _entityRegistry, _entityRegistryLoaded,
                 _selectedEntryId>>
  /\ UNCHANGED <<envVars, picked, submitSnapshot, draftAccount>>
  /\ Observe

\* The host assigns a new hass object (the same user, maybe new states).
SetHass(h) ==
  /\ hass.defined => h = hass
  /\ hass' = h
  /\ updatePending' = TRUE
  /\ UNCHANGED <<states, _config, changedConfig, prevConfig, draftVars,
                 _submitting, _deletingFavorite, _updatingFavorite,
                 _resolvingService, resolveVars, _entries, _entriesLoaded,
                 _entityRegistry, _entityRegistryLoaded, _selectedEntryId>>
  /\ UNCHANGED <<envVars, picked, submitSnapshot, draftAccount>>
  /\ Observe

\* The favorites sensor of an entity gets a new state.
FavoritesPushed(entityId, entityState) ==
  /\ hass.defined
  /\ states[entityId] # entityState
  /\ states' = [states EXCEPT ![entityId] = entityState]
  /\ updatePending' = TRUE
  /\ UNCHANGED <<hass, _config, changedConfig, prevConfig, draftVars,
                 _submitting, _deletingFavorite, _updatingFavorite,
                 _resolvingService, resolveVars, _entries, _entriesLoaded,
                 _entityRegistry, _entityRegistryLoaded, _selectedEntryId>>
  /\ UNCHANGED <<envVars, picked, submitSnapshot, draftAccount>>
  /\ Observe

Tick(step) ==
  /\ ~updatePending
  /\ now + step <= MaxTime
  /\ now' = now + step
  /\ UNCHANGED cardVars
  /\ UNCHANGED <<serverEntries, entryLoads, registryLoads, lookups, submitPc,
                 submitLocals, deletePc, call, lastNotify>>
  /\ UNCHANGED <<picked, submitSnapshot, draftAccount>>
  /\ Observe

ServerChange(list) ==
  /\ list # serverEntries
  /\ serverEntries' = list
  /\ UNCHANGED cardVars
  /\ UNCHANGED <<now, entryLoads, registryLoads, lookups, submitPc,
                 submitLocals, deletePc, call, lastNotify>>
  /\ UNCHANGED <<picked, submitSnapshot, draftAccount>>
  /\ Observe

(***************************************************************************)
(* updated(changedProps)                                                   *)
(***************************************************************************)

\* changedProps.has("_config") && prevConfig?.config_entry_id !== entryId
entryIdChanged(hasConfig, prev, entryId) ==
  hasConfig /\ prev.config_entry_id # entryId

retryDue(lastResolveEntryId, lastResolveAttempt, entryId, t) ==
  LET lastAttemptRelevant == lastResolveEntryId = entryId IN
  \/ ~lastAttemptRelevant
  \/ lastResolveAttempt = NoTime
  \/ t - lastResolveAttempt > Cooldown

\* The in-flight flag ignored.
resolveNeverBlocked(resolvingService) == FALSE

\* if (this._resolvingService) return;
resolveBlocked(resolvingService) == resolvingService

updated ==
  /\ updatePending
  /\ changedConfig' = FALSE
  /\ prevConfig' = NoConfig
  /\ UNCHANGED <<hass, states, _config, draftVars, _submitting,
                 _deletingFavorite, _updatingFavorite, _entries,
                 _entityRegistry, _selectedEntryId>>
  /\ UNCHANGED <<now, serverEntries, submitPc, submitLocals, deletePc,
                 call, lastNotify, picked, submitSnapshot, draftAccount>>
  /\ IF ~hass.defined \/ ~_config.defined
     THEN UNCHANGED <<_entriesLoaded, _entityRegistryLoaded, _resolvingService,
                      resolveVars, entryLoads, registryLoads, lookups>>
     ELSE
       LET favoritesEntity == trim(_config.favorites_entity)
           privileged == hass.is_admin /\ hass.callWS
           loadEntries == ~_entriesLoaded /\ privileged
           loadRegistry == ~_entityRegistryLoaded /\ privileged
           entriesLoaded == _entriesLoaded \/ ~privileged
           entryId == activeEntryId(_config, _selectedEntryId, entriesLoaded,
                                    _entries)
           identifier == entryIdentifier(_entries, entryId)
           changed == entryIdChanged(changedConfig, prevConfig, entryId)
           resolvedId == IF changed THEN Empty ELSE _resolvedConfigEntryId
           lastAttempt == IF changed THEN NoTime ELSE _lastResolveAttempt
           lastEntryId == IF changed THEN Empty ELSE _lastResolveEntryId
       IN
       /\ loadEntries => entryLoads < MaxInFlight
       /\ loadRegistry => registryLoads < MaxInFlight
       /\ entryLoads' = IF loadEntries THEN entryLoads + 1 ELSE entryLoads
       /\ registryLoads' =
            IF loadRegistry THEN registryLoads + 1 ELSE registryLoads
       /\ _entriesLoaded' = entriesLoaded
       /\ _entityRegistryLoaded' = (_entityRegistryLoaded \/ ~privileged)
       /\ IF entryId = Empty \/ favoritesEntity # Empty
          THEN UNCHANGED <<_resolvingService, resolveVars, lookups>>
          ELSE IF identifier # Empty
          THEN /\ _resolvedIdentifier' = identifier
               /\ _resolvedConfigEntryId' = entryId
               /\ UNCHANGED <<_resolvingService, _lastResolveAttempt,
                              _lastResolveEntryId, lookups>>
          ELSE IF ~hass.is_admin \/ ~hass.callWS
          THEN UNCHANGED <<_resolvingService, resolveVars, lookups>>
          ELSE IF \/ resolveBlocked(_resolvingService)
                  \/ resolvedId = entryId
                  \/ ~retryDue(lastEntryId, lastAttempt, entryId, now)
          THEN /\ _resolvedConfigEntryId' = resolvedId
               /\ _resolvedIdentifier' =
                    IF changed THEN Empty ELSE _resolvedIdentifier
               /\ _lastResolveAttempt' = lastAttempt
               /\ _lastResolveEntryId' = lastEntryId
               /\ UNCHANGED <<_resolvingService, lookups>>
          ELSE /\ Len(lookups) < MaxInFlight
               /\ _resolvedConfigEntryId' = resolvedId
               /\ _resolvedIdentifier' =
                    IF changed THEN Empty ELSE _resolvedIdentifier
               /\ _lastResolveAttempt' = now
               /\ _lastResolveEntryId' = entryId
               /\ _resolvingService' = TRUE
               /\ lookups' = Append(lookups, entryId)
  /\ updatePending' = (reactive' # reactive)
  /\ Observe

(***************************************************************************)
(* Answers of the host's lookups.  An answer arrives as a task of its own, *)
(* after the update scheduled by the task before it has run, hence the     *)
(* ~updatePending of every answer.                                         *)
(***************************************************************************)

\* _loadEntries after its await: ok is whether fetchConfigEntries resolved.
loadEntriesDone(ok) ==
  /\ ~updatePending
  /\ entryLoads > 0
  /\ entryLoads' = entryLoads - 1
  /\ _entries' = IF ok THEN serverEntries ELSE <<>>
  /\ _entriesLoaded' = TRUE
  /\ IF /\ _config.config_entry_id = Empty
        /\ _selectedEntryId = Empty
        /\ Len(_entries') = 1
     THEN setSelectedEntry(_entries'[1].entry_id)
     ELSE UNCHANGED <<_selectedEntryId, resolveVars, draftVars>>
  /\ UNCHANGED picked
  /\ updatePending' = TRUE
  /\ UNCHANGED <<hass, states, _config, changedConfig, prevConfig,
                 _submitting, _deletingFavorite, _updatingFavorite,
                 _resolvingService, _entityRegistry, _entityRegistryLoaded>>
  /\ UNCHANGED <<now, serverEntries, registryLoads, lookups, submitPc,
                 submitLocals, deletePc, call, lastNotify>>
  /\ UNCHANGED <<submitSnapshot, draftAccount>>
  /\ Observe

loadEntityRegistryDone(ok) ==
  /\ ~updatePending
  /\ registryLoads > 0
  /\ registryLoads' = registryLoads - 1
  /\ _entityRegistry' = IF ok THEN ServerRegistry ELSE <<>>
  /\ _entityRegistryLoaded' = TRUE
  /\ updatePending' = TRUE
  /\ UNCHANGED <<hass, states, _config, changedConfig, prevConfig, draftVars,
                 _submitting, _deletingFavorite, _updatingFavorite,
                 _resolvingService, resolveVars, _entries, _entriesLoaded,
                 _selectedEntryId>>
  /\ UNCHANGED <<now, serverEntries, entryLoads, lookups, submitPc,
                 submitLocals, deletePc, call, lastNotify>>
  /\ UNCHANGED <<picked, submitSnapshot, draftAccount>>
  /\ Observe

\* resolveIdFromConfigEntry(hass, entryId) of config-entry.ts, answered from
\* the host's current list; Empty for undefined.
resolveIdFromConfigEntry(entries, entryId) == entryIdentifier(entries, entryId)

\* What _resolveIdFromConfigEntry stores once the lookup for entryId settled.
resolveOutcome(entryId, resolved) ==
  IF resolved # Empty
  THEN [configEntryId |-> entryId, identifier |-> resolved]
  ELSE [configEntryId |-> Empty, identifier |-> Empty]

\* _resolveIdFromConfigEntry after its await, for the i-th lookup in flight:
\* ok is whether the call resolved (else it threw).
resolveDone(i, ok) ==
  /\ ~updatePending
  /\ i \in 1..Len(lookups)
  /\ LET entryId == lookups[i]
         resolved == IF ok THEN resolveIdFromConfigEntry(serverEntries, entryId)
                     ELSE Empty
         outcome == resolveOutcome(entryId, resolved)
     IN /\ _resolvedIdentifier' = outcome.identifier
        /\ _resolvedConfigEntryId' = outcome.configEntryId
  /\ _resolvingService' = FALSE
  /\ lookups' = [j \in 1..(Len(lookups) - 1) |->
                   IF j < i THEN lookups[j] ELSE lookups[j + 1]]
  /\ UNCHANGED <<hass, states, _config, changedConfig, prevConfig, draftVars,
                 _submitting, _deletingFavorite, _updatingFavorite,
                 _lastResolveAttempt, _lastResolveEntryId, _entries,
                 _entriesLoaded, _entityRegistry, _entityRegistryLoaded,
                 _selectedEntryId>>
  /\ UNCHANGED <<now, serverEntries, entryLoads, registryLoads, submitPc,
                 submitLocals, deletePc, call, lastNotify>>
  /\ UNCHANGED <<picked, submitSnapshot, draftAccount>>
  /\ ScheduleUpdate
  /\ Observe

(***************************************************************************)
(* The user: account picker, favorites select, inputs, toggles             *)
(***************************************************************************)

EntryIds(entries) == {entries[i].entry_id : i \in 1..Len(entries)}

\* The value the account picker shows: .value=${entryId ?? ""}
pickerValue ==
  IF _activeEntryId \in EntryIds(_entries) THEN _activeEntryId ELSE Empty

\* _entryChanged: a change event of the account picker.
entryChanged(entryId) ==
  /\ rendered
  /\ showEntryPicker
  /\ entryId \in EntryIds(_entries) \cup {Empty}
  /\ entryId # pickerValue
  /\ setSelectedEntry(entryId)
  /\ picked' = (entryId # Empty)
  /\ UNCHANGED <<hass, states, _config, changedConfig, prevConfig,
                 _submitting, _deletingFavorite, _updatingFavorite,
                 _resolvingService, _entries, _entriesLoaded,
                 _entityRegistry, _entityRegistryLoaded>>
  /\ UNCHANGED <<envVars, submitSnapshot, draftAccount>>
  /\ ScheduleUpdate
  /\ Observe

IndexString(i) == <<CASE i = 0 -> "0" [] i = 1 -> "1" [] i = 2 -> "2"
                      [] i = 3 -> "3" [] OTHER -> "4">>

\* The option values of the favorites select.
FavoriteOptions == {Empty} \cup {IndexString(i) : i \in 0..(Len(_favorites) - 1)}

onlyDraftChanges ==
  /\ UNCHANGED <<hass, states, _config, changedConfig, prevConfig,
                 _submitting, _deletingFavorite, _updatingFavorite,
                 _resolvingService, resolveVars, _entries, _entriesLoaded,
                 _entityRegistry, _entityRegistryLoaded, _selectedEntryId>>
  /\ UNCHANGED <<envVars, picked, submitSnapshot>>
  /\ ScheduleUpdate
  /\ Observe

\* The change event of the favorites select: _selectFavorite(value).
selectFavoriteChange(indexValue) ==
  /\ rendered
  /\ ~(missingFavorites \/ entryLocked \/ _busy)
  /\ indexValue # _favoriteDraft
  /\ SetDraft(selectFavorite(_favorites, draft, indexValue))
  /\ draftAccount' = _activeEntryId
  /\ onlyDraftChanges

\* The input event of the name field.
nameInput(value) ==
  /\ rendered
  /\ ~(entryLocked \/ _busy)
  /\ value # _nameDraft
  /\ SetDraft(syncFavoriteToggles(_favorites,
       maybeResetFavoriteSelection(_favorites,
         [draft EXCEPT !.nameDraft = value])))
  /\ draftAccount' = _activeEntryId
  /\ onlyDraftChanges

\* The input event of the license plate field.
licensePlateInput(value) ==
  /\ rendered
  /\ ~(entryLocked \/ _busy)
  /\ value # _licensePlateDraft
  /\ SetDraft(syncFavoriteToggles(_favorites,
       maybeResetFavoriteSelection(_favorites,
         [draft EXCEPT !.licensePlateDraft = value])))
  /\ draftAccount' = _activeEntryId
  /\ onlyDraftChanges

\* The update checkbox is rendered when _offerUpdateFavorite.
updateFavoriteToggled(checked) ==
  /\ rendered
  /\ _offerUpdateFavorite
  /\ ~(entryLocked \/ _busy \/ ~_canUpdateFavorite)
  /\ checked # _updateFavorite
  /\ SetDraft([draft EXCEPT !.updateFavorite = checked])
  /\ UNCHANGED draftAccount
  /\ onlyDraftChanges

\* The add checkbox is rendered when neither update nor delete is.
addToFavoritesToggled(checked) ==
  /\ rendered
  /\ ~_offerUpdateFavorite /\ ~showDeleteFavorite /\ _showAddToFavorites
  /\ ~(entryLocked \/ _busy)
  /\ checked # _addToFavorites
  /\ SetDraft([draft EXCEPT !.addToFavorites = checked])
  /\ UNCHANGED draftAccount
  /\ onlyDraftChanges

(***************************************************************************)
(* _submit and _deleteFavorite                                             *)
(***************************************************************************)

ServiceCall(service, name, licensePlate, favoriteId, entryId) ==
  [service |-> service, name |-> name, license_plate |-> licensePlate,
   favorite_id |-> favoriteId, config_entry_id |-> entryId]

\* An update asked for a favorite that may carry no id.
shouldUpdateWithoutId(favs, d) ==
  /\ d.updateFavorite
  /\ canUpdateFavorite(favs, d)
  /\ selectedFavoriteChanged(favs, d)

shouldUpdateFavorite(favs, d) ==
  /\ selectedFavoriteId(favs, d) # Empty
  /\ d.updateFavorite
  /\ canUpdateFavorite(favs, d)
  /\ selectedFavoriteChanged(favs, d)

shouldAddFavorite(favs, d) == d.addToFavorites /\ showAddToFavorites(favs, d)

onlySubmitChanges ==
  /\ UNCHANGED <<hass, states, _config, changedConfig, prevConfig,
                 _deletingFavorite, _resolvingService, resolveVars, _entries,
                 _entriesLoaded, _entityRegistry, _entityRegistryLoaded,
                 _selectedEntryId>>
  /\ UNCHANGED <<now, serverEntries, entryLoads, registryLoads, lookups,
                 deletePc, picked, draftAccount>>
  /\ ScheduleUpdate
  /\ Observe

\* _submit up to its first await: the click on the submit button.
submit ==
  /\ rendered
  /\ ~(entryLocked \/ _busy \/ trim(_licensePlateDraft) = Empty)
  /\ ~(_activeEntryId = Empty /\ _entriesLoaded /\ Len(_entries) > 1)
  /\ submitPc = "idle"
  /\ submitLocals' =
       [licensePlate |-> trim(_licensePlateDraft),
        selectedFavoriteId |-> _selectedFavoriteId,
        shouldUpdateFavorite |-> shouldUpdateFavorite(_favorites, draft),
        shouldAddFavorite |-> shouldAddFavorite(_favorites, draft)]
  /\ submitSnapshot' =
       [favorites |-> _favorites, name |-> _nameDraft,
        plate |-> _licensePlateDraft,
        selectedIndex |-> selectedFavoriteIndex(_favorites, draft),
        entryId |-> _activeEntryId, reservation |-> "pending"]
  /\ _submitting' = TRUE
  /\ call' = ServiceCall("create_reservation", trim(_nameDraft),
                         trim(_licensePlateDraft), Empty, _activeEntryId)
  /\ submitPc' = "reservation"
  /\ lastNotify' = "none"
  /\ UNCHANGED <<draftVars, _updatingFavorite>>
  /\ onlySubmitChanges

\* The end of _submit: the drafts are reset unless create_reservation failed.
submitEnds(reset) ==
  /\ IF reset THEN SetDraft(EmptyDraft) ELSE UNCHANGED draftVars
  /\ _submitting' = FALSE
  /\ submitPc' = "idle"
  /\ submitLocals' = NoSubmit
  /\ submitSnapshot' = NoSnapshot
  /\ call' = NoCall

\* The follow-up runs whatever became of create_reservation.
reservationSettled(ok) == TRUE

\* The await of create_reservation returned without throwing.
reservationResolved(ok) == ok

\* How create_reservation settled, kept for the properties.
settledAs(ok) ==
  [submitSnapshot EXCEPT !.reservation = IF ok THEN "resolved" ELSE "rejected"]

\* create_reservation settled: ok is whether it resolved.
reservationDone(ok) ==
  /\ ~updatePending
  /\ submitPc = "reservation"
  /\ IF ~reservationResolved(ok)
     THEN /\ lastNotify' = "could_not_submit"
          /\ submitEnds(FALSE)
          /\ UNCHANGED _updatingFavorite
     ELSE IF submitLocals.shouldUpdateFavorite
     THEN IF trim(_nameDraft) = Empty
          THEN /\ lastNotify' = "favorite_name_required_error"
               /\ submitEnds(TRUE)
               /\ UNCHANGED _updatingFavorite
          ELSE /\ _updatingFavorite' = TRUE
               /\ call' = ServiceCall("update_favorite", trim(_nameDraft),
                                      submitLocals.licensePlate,
                                      submitLocals.selectedFavoriteId,
                                      _activeEntryId)
               /\ submitPc' = "update"
               /\ submitSnapshot' = settledAs(ok)
               /\ UNCHANGED <<draftVars, _submitting, submitLocals,
                              lastNotify>>
     ELSE IF submitLocals.shouldAddFavorite
     THEN IF trim(_nameDraft) = Empty
          THEN /\ lastNotify' = "favorite_name_required_error"
               /\ submitEnds(TRUE)
               /\ UNCHANGED _updatingFavorite
          ELSE /\ call' = ServiceCall("create_favorite", trim(_nameDraft),
                                      submitLocals.licensePlate, Empty,
                                      _activeEntryId)
               /\ submitPc' = "create"
               /\ submitSnapshot' = settledAs(ok)
               /\ UNCHANGED <<draftVars, _submitting, _updatingFavorite,
                              submitLocals, lastNotify>>
     ELSE /\ submitEnds(TRUE)
          /\ UNCHANGED <<_updatingFavorite, lastNotify>>
  /\ onlySubmitChanges

\* The rejection reported as a failed submit.
submitFailureNotice(pc) == "could_not_submit"

\* The inner catch blocks of _submit: what a rejected update_favorite
\* (pc = "update") or create_favorite (pc = "create") notifies.
favoriteFailureNotice(pc) ==
  IF pc = "update" THEN "could_not_update_favorite"
  ELSE "could_not_save_favorite"

\* update_favorite or create_favorite settled.
favoriteMutationDone(ok) ==
  /\ ~updatePending
  /\ submitPc \in {"update", "create"}
  /\ lastNotify' = IF ok THEN lastNotify ELSE favoriteFailureNotice(submitPc)
  /\ _updatingFavorite' = FALSE
  /\ submitEnds(TRUE)
  /\ onlySubmitChanges

onlyDeleteChanges ==
  /\ UNCHANGED <<hass, states, _config, changedConfig, prevConfig,
                 _nameDraft, _licensePlateDraft, _submitting,
                 _updatingFavorite, _resolvingService, resolveVars, _entries,
                 _entriesLoaded, _entityRegistry, _entityRegistryLoaded,
                 _selectedEntryId>>
  /\ UNCHANGED <<now, serverEntries, entryLoads, registryLoads, lookups,
                 submitPc, submitLocals, picked, submitSnapshot, draftAccount>>
  /\ ScheduleUpdate
  /\ Observe

\* _deleteFavorite up to its await: the click on the delete button, which is
\* rendered when no update is offered and showDeleteFavorite.
deleteFavorite ==
  /\ rendered
  /\ ~_offerUpdateFavorite /\ showDeleteFavorite
  /\ ~(entryLocked \/ _busy)
  /\ ~(_activeEntryId = Empty /\ _entriesLoaded /\ Len(_entries) > 1)
  /\ _selectedFavoriteId # Empty
  /\ deletePc = "idle"
  /\ _deletingFavorite' = TRUE
  /\ call' = ServiceCall("delete_favorite", Empty, Empty, _selectedFavoriteId,
                         _activeEntryId)
  /\ deletePc' = "delete"
  /\ lastNotify' = "none"
  /\ UNCHANGED <<_favoriteDraft, _addToFavorites, _updateFavorite>>
  /\ onlyDeleteChanges

\* delete_favorite settled.
deleteDone(ok) ==
  /\ ~updatePending
  /\ deletePc = "delete"
  /\ IF ok
     THEN LET d == syncFavoriteToggles(_favorites,
                     [draft EXCEPT !.favoriteDraft = Empty,
                                   !.updateFavorite = FALSE])
          IN /\ _favoriteDraft' = d.favoriteDraft
             /\ _addToFavorites' = d.addToFavorites
             /\ _updateFavorite' = d.updateFavorite
             /\ UNCHANGED lastNotify
     ELSE /\ lastNotify' = "could_not_remove_favorite"
          /\ UNCHANGED <<_favoriteDraft, _addToFavorites, _updateFavorite>>
  /\ _deletingFavorite' = FALSE
  /\ deletePc' = "idle"
  /\ call' = NoCall
  /\ onlyDeleteChanges

(***************************************************************************)
(* Specifications                                                          *)
(***************************************************************************)

\* The entities of the host and the favorites each one carries at first.
InitialStates ==
  [e \in {OverrideEntity, RegistryEntity, DerivedEntity(<<"7">>),
          DerivedEntity(<<"4", "2">>)} |->
     IF e = DerivedEntity(<<"7">>) THEN FavoritesState(<<Mom, Mom2>>)
     ELSE IF e = DerivedEntity(<<"4", "2">>) THEN FavoritesState(<<Dad>>)
     ELSE IF e = RegistryEntity THEN FavoritesState(<<Dad>>)
     ELSE FavoritesState(<<Mom>>)]

\* The editor as constructed.
EditorConstructed ==
  [hass |-> NoHass, _config |-> NoConfig, _entries |-> <<>>,
   _entriesLoaded |-> FALSE]

\* The active reservations card as constructed.
ActiveCardConstructed ==
  [hass |-> NoHass, _config |-> NoCardConfig, _entries |-> <<>>,
   _entriesLoaded |-> FALSE, _entityRegistry |-> <<>>,
   _entityRegistryLoaded |-> FALSE, _endingReservationIds |-> {},
   updatePending |-> FALSE]

NoLoads == [entries |-> 0, registry |-> 0]

\* The card as constructed, before setConfig and before hass is assigned.
Constructed ==
  /\ hass = NoHass
  /\ states = InitialStates
  /\ _config = NoConfig
  /\ changedConfig = FALSE
  /\ prevConfig = NoConfig
  /\ updatePending = FALSE
  /\ _favoriteDraft = Empty
  /\ _nameDraft = Empty
  /\ _licensePlateDraft = Empty
  /\ _addToFavorites = FALSE
  /\ _updateFavorite = FALSE
  /\ _submitting = FALSE
  /\ _deletingFavorite = FALSE
  /\ _updatingFavorite = FALSE
  /\ _resolvingService = FALSE
  /\ _resolvedConfigEntryId = Empty
  /\ _resolvedIdentifier = Empty
  /\ _entries = <<>>
  /\ _entriesLoaded = FALSE
  /\ _entityRegistry = <<>>
  /\ _entityRegistryLoaded = FALSE
  /\ _selectedEntryId = Empty
  /\ _lastResolveAttempt = NoTime
  /\ _lastResolveEntryId = Empty
  /\ now = 0
  /\ entryLoads = 0
  /\ registryLoads = 0
  /\ lookups = <<>>
  /\ submitPc = "idle"
  /\ submitLocals = NoSubmit
  /\ deletePc = "idle"
  /\ call = NoCall
  /\ lastNotify = "none"
  /\ attemptAt = NoAttempt
  /\ picked = FALSE
  /\ submitSnapshot = NoSnapshot
  /\ draftAccount = Empty
  /\ editor = EditorConstructed
  /\ editorLoads = 0
  /\ emitted = <<>>
  /\ dispatched = 0
  /\ activeCard = ActiveCardConstructed
  /\ activeLoads = NoLoads
  /\ deletes = <<>>

Init ==
  /\ Constructed
  /\ serverEntries \in ServerLists

ConfigInputs ==
  {Config(e, f) : e \in {Empty, IdA, IdB}, f \in {Empty, OverrideEntity}}

HassInputs == {Hass(TRUE, TRUE), Hass(FALSE, TRUE)}

\* The account and identity side of the card; the draft stays empty.
Next ==
  \/ \E c \in ConfigInputs : setConfig(c)
  \/ \E h \in HassInputs : SetHass(h)
  \/ \E step \in TickSteps : Tick(step)
  \/ \E list \in ServerLists : ServerChange(list)
  \/ updated
  \/ \E ok \in BOOLEAN : loadEntriesDone(ok)
  \/ loadEntityRegistryDone(TRUE)
  \/ \E i \in 1..MaxInFlight, ok \in BOOLEAN : resolveDone(i, ok)
  \/ \E e \in {Empty, IdA, IdB} : entryChanged(e)

Spec == Init /\ [][Next]_vars

(***************************************************************************)
(* Properties of the account and identity side (checked under Spec)        *)
(***************************************************************************)

\* This step issued an identity lookup.
LookupIssued == Len(lookups') = Len(lookups) + 1

IssuedFor == lookups'[Len(lookups')]

\* The active account has no usable identifier of its own and the card may
\* ask the host for one.
NeedsLookup ==
  /\ hass.defined /\ _config.defined
  /\ hass.is_admin /\ hass.callWS
  /\ trim(_config.favorites_entity) = Empty
  /\ _activeEntryId # Empty
  /\ entryIdentifier(_entries, _activeEntryId) = Empty

\* C3: two lookups issued for the same account with no change of the active
\* account between them lie more than the cooldown apart.
C3_CooldownBetweenAttempts ==
  [][(LookupIssued /\ attemptAt.entryId = IssuedFor)
       => now - attemptAt.at > Cooldown]_vars

\* C4: at most one identity lookup is in flight at any time, so a lookup
\* for an account has settled before a later one for it is started.
C4_AtMostOneLookupInFlight ==
  /\ Len(lookups) <= 1
  /\ _resolvingService <=> lookups # <<>>

\* A lookup is in flight for one account while another account, which
\* needs a lookup itself, has become the active one.
C4_Witness ==
  /\ Len(lookups) = 1
  /\ NeedsLookup
  /\ lookups[1] # _activeEntryId

C6_StaleResultDropped ==
  [][(Len(lookups') < Len(lookups) /\ lookups[1] # _activeEntryId)
       => UNCHANGED <<_resolvedConfigEntryId, _resolvedIdentifier>>]_vars

\* C7: the slug of the active account is that account's own identifier,
\* and the favorites source derived from it is named after it.
C7_SlugIsOwn ==
  /\ _slug # Empty
       => _slug = resolveIdentifierFromEntry(PoolEntry(_activeEntryId))
  /\ (hass.defined /\ _config.defined /\ _favoritesEntityId # Empty)
       => \/ _favoritesEntityId = trim(_config.favorites_entity)
          \/ \E i \in 1..Len(_entityRegistry) :
               /\ _entityRegistry[i].entity_id = _favoritesEntityId
               /\ _entityRegistry[i].config_entry_id = _activeEntryId
          \/ _favoritesEntityId =
               DerivedEntity(slugifyId(
                 resolveIdentifierFromEntry(PoolEntry(_activeEntryId))))

\* The slug comes from a lookup, after a lookup for another account.
C7_Witness ==
  /\ _slug # Empty
  /\ entryIdentifier(_entries, _activeEntryId) = Empty
  /\ _favoritesEntityId = DerivedEntity(slugifyId(_slug))

\* C9: a pinned account is the active account.
C9_PinWins ==
  _config.config_entry_id # Empty => _activeEntryId = _config.config_entry_id

\* An account is pinned while another one is selected in the picker.
C9_Witness ==
  /\ _config.config_entry_id # Empty
  /\ _selectedEntryId # Empty
  /\ _selectedEntryId # _config.config_entry_id
  /\ _entriesLoaded

\* C10: with no pinned account and the account list loaded, the single
\* listed account is the active one, and with two or more listed the active
\* account stays undefined until the user picks one.
C10_AutoSelection ==
  (/\ hass.defined /\ _config.defined
   /\ _config.config_entry_id = Empty
   /\ _entriesLoaded /\ entryLoads = 0)
    => /\ Len(_entries) = 1 => _activeEntryId = _entries[1].entry_id
       /\ (Len(_entries) >= 2 /\ ~picked) => _activeEntryId = Empty

(***************************************************************************)
(* The draft side: favorites, inputs, toggles, submit and delete, for a    *)
(* card that has loaded its two accounts and the entity registry           *)
(***************************************************************************)

\* An admin's card, no account pinned, both lists loaded, nothing picked.
Settled ==
  /\ hass = Hass(TRUE, TRUE)
  /\ states = InitialStates
  /\ _config = Config(Empty, Empty)
  /\ changedConfig = FALSE
  /\ prevConfig = NoConfig
  /\ updatePending = FALSE
  /\ _favoriteDraft = Empty
  /\ _nameDraft = Empty
  /\ _licensePlateDraft = Empty
  /\ _addToFavorites = FALSE
  /\ _updateFavorite = FALSE
  /\ _submitting = FALSE
  /\ _deletingFavorite = FALSE
  /\ _updatingFavorite = FALSE
  /\ _resolvingService = FALSE
  /\ _resolvedConfigEntryId = Empty
  /\ _resolvedIdentifier = Empty
  /\ _entries = <<EntryA, EntryB>>
  /\ _entriesLoaded = TRUE
  /\ _entityRegistry = ServerRegistry
  /\ _entityRegistryLoaded = TRUE
  /\ _selectedEntryId = Empty
  /\ _lastResolveAttempt = NoTime
  /\ _lastResolveEntryId = Empty
  /\ now = 0
  /\ serverEntries = <<EntryA, EntryB>>
  /\ entryLoads = 0
  /\ registryLoads = 0
  /\ lookups = <<>>
  /\ submitPc = "idle"
  /\ submitLocals = NoSubmit
  /\ deletePc = "idle"
  /\ call = NoCall
  /\ lastNotify = "none"
  /\ attemptAt = NoAttempt
  /\ picked = FALSE
  /\ submitSnapshot = NoSnapshot
  /\ draftAccount = Empty
  /\ editor = EditorConstructed
  /\ editorLoads = 0
  /\ emitted = <<>>
  /\ dispatched = 0
  /\ activeCard = ActiveCardConstructed
  /\ activeLoads = NoLoads
  /\ deletes = <<>>

NameInputs == {Empty, <<"m", "o", "m", " ">>, <<"D", "a", "d">>}

PlateInputs ==
  {Empty, <<"a", "b", "1", "2">>, <<"D", "E", "4", "7">>, <<"-">>}

\* What the favorites sensor of account A may report.
PushedStates ==
  {FavoritesState(<<Mom, Mom2>>), FavoritesState(<<Mom2, Dad>>),
   FavoritesState(<<Anon>>)}

\* The host pins account B.
PinInputs == {Config(IdB, Empty)}

NextFav ==
  \/ \E c \in PinInputs : setConfig(c)
  \/ \E s \in PushedStates : FavoritesPushed(DerivedEntity(<<"7">>), s)
  \/ updated
  \/ \E e \in {IdA, IdB} : entryChanged(e)
  \/ \E v \in FavoriteOptions : selectFavoriteChange(v)
  \/ \E v \in NameInputs : nameInput(v)
  \/ \E v \in PlateInputs : licensePlateInput(v)
  \/ \E b \in BOOLEAN : updateFavoriteToggled(b)
  \/ \E b \in BOOLEAN : addToFavoritesToggled(b)
  \/ submit
  \/ \E ok \in BOOLEAN : reservationDone(ok)
  \/ \E ok \in BOOLEAN : favoriteMutationDone(ok)
  \/ deleteFavorite
  \/ \E ok \in BOOLEAN : deleteDone(ok)

SpecFav == Settled /\ [][NextFav]_vars

(***************************************************************************)
(* Properties of the draft side (checked under SpecFav)                    *)
(***************************************************************************)

\* C1: a create_favorite is in flight only if no favorite of the list the
\* submit started with equals the draft it started with (normalized name and
\* normalized plate), and an update_favorite only if no favorite other than
\* the selected one does.
C1_NoDuplicateMutation ==
  LET favs == submitSnapshot.favorites
      matches(i) == favoriteMatchesDraft(favs[i], submitSnapshot.name,
                                         submitSnapshot.plate)
  IN /\ call.service = "create_favorite"
          => \A i \in 1..Len(favs) : ~matches(i)
     /\ call.service = "update_favorite"
          => \A i \in 1..Len(favs) :
               i - 1 # submitSnapshot.selectedIndex => ~matches(i)

\* An update_favorite is in flight and the list held other favorites.
C1_Witness ==
  /\ call.service = "update_favorite"
  /\ Len(submitSnapshot.favorites) >= 2
  /\ submitSnapshot.selectedIndex # NoIndex

\* C2: add and update are never offered together.
C2_AddAndUpdateExclusive == ~(_showAddToFavorites /\ _offerUpdateFavorite)

\* Update is offered for a draft that equals no favorite, which without the
\* selection would be offered for adding.
C2_Witness ==
  /\ _offerUpdateFavorite
  /\ trim(_nameDraft) # Empty /\ trim(_licensePlateDraft) # Empty
  /\ ~draftMatchesExistingFavorite(_favorites, draft)

\* C8: once the update that follows a change of the active account has run,
\* a draft that is not empty was entered under the active account.
C8_DraftOfActiveAccount ==
  (~updatePending /\ draft # EmptyDraft) => draftAccount = _activeEntryId

(***************************************************************************)
(* Further properties of the account and identity side (under Spec)        *)
(***************************************************************************)

\* C11: the slug of an active account with a declared identifier is that
\* identifier, and no identity lookup is issued for such an account.
C11_DeclaredNeedsNoLookup ==
  /\ [](LET declared == declaredIdentifier(PoolEntry(_activeEntryId))
        IN (_activeEntryId # Empty /\ declared # Empty /\ _slug # Empty)
             => _slug = declared)
  /\ [][LookupIssued
          => declaredIdentifier(PoolEntry(IssuedFor)) = Empty]_vars

(***************************************************************************)
(* Retries: one account on the server, the clock advancing by 10 and 21,   *)
(* so that an update can run 10, 20, 21, 30 or 31 after an attempt         *)
(***************************************************************************)

RetrySteps == {10, 21}

RetryConfigs == {Config(Empty, Empty), Config(IdA, Empty)}

InitRetry ==
  /\ Constructed
  /\ serverEntries = <<EntryA>>

NextRetry ==
  \/ \E c \in RetryConfigs : setConfig(c)
  \/ SetHass(Hass(TRUE, TRUE))
  \/ \E step \in RetrySteps : Tick(step)
  \/ updated
  \/ \E ok \in BOOLEAN : loadEntriesDone(ok)
  \/ loadEntityRegistryDone(TRUE)
  \/ \E i \in 1..MaxInFlight, ok \in BOOLEAN : resolveDone(i, ok)

SpecRetry == InitRetry /\ [][NextRetry]_vars

\* The last lookup was issued for the account that is still active, it has
\* settled, and the account is still unresolved and in need of a lookup.
AttemptFailed ==
  /\ NeedsLookup
  /\ attemptAt.entryId = _activeEntryId
  /\ lookups = <<>>
  /\ _resolvedConfigEntryId # _activeEntryId

\* C12: after a failed lookup for the account that stays active, an update
\* within the cooldown of the attempt (10 after it) issues no lookup, and an
\* update past the cooldown (31 after it) issues one.
C12_RetryAfterCooldown ==
  /\ [][(updated /\ AttemptFailed /\ now - attemptAt.at <= Cooldown)
          => ~LookupIssued]_vars
  /\ [][(updated /\ AttemptFailed /\ now - attemptAt.at > Cooldown)
          => (LookupIssued /\ IssuedFor = _activeEntryId)]_vars

(***************************************************************************)
(* Identifiers: account A listed with every modelled shape of unique_id    *)
(* and title, its identifier reaching the card through the account list    *)
(* (_entryIdentifier) or through a lookup (resolveIdFromConfigEntry)       *)
(***************************************************************************)

UniqueIdShapes ==
  {Undef, Empty, <<" ">>, <<" ", "4", "2", " ">>, <<"N", "o", "n", "e">>}

TitleShapes ==
  {<<"a">>, <<"a", " ", "(", "7", ")">>, <<"a", "(", " ", "7", ")", " ">>,
   <<"(", "7", ")", " ", "a">>, <<"a", " ", "(", " ", ")">>}

EntryShapes ==
  {[entry_id |-> IdA, title |-> t, unique_id |-> u] :
     t \in TitleShapes, u \in UniqueIdShapes}

InitIdent ==
  /\ Constructed
  /\ serverEntries \in {<<e>> : e \in EntryShapes}

NextIdent ==
  \/ \E c \in RetryConfigs : setConfig(c)
  \/ SetHass(Hass(TRUE, TRUE))
  \/ updated
  \/ \E ok \in BOOLEAN : loadEntriesDone(ok)
  \/ loadEntityRegistryDone(TRUE)
  \/ \E i \in 1..MaxInFlight, ok \in BOOLEAN : resolveDone(i, ok)

SpecIdent == InitIdent /\ [][NextIdent]_vars

\* The identifier the card holds for account A, from either route.
HeldIdentifier ==
  IF entryIdentifier(_entries, IdA) # Empty
  THEN entryIdentifier(_entries, IdA)
  ELSE IF _resolvedConfigEntryId = IdA THEN _resolvedIdentifier
  ELSE Empty

\* C13 as claimed: the identifier is the trimmed unique_id when that is not
\* empty, otherwise the identifier in the trailing parenthetical of the
\* title when there is one, otherwise the entry_id.
C13_Original ==
  LET entry == serverEntries[1]
      uniqueId == trim(OrEmpty(entry.unique_id))
      parsed == parseIdFromTitle(entry.title)
  IN HeldIdentifier # Empty
       => HeldIdentifier = IF uniqueId # Empty THEN uniqueId
                           ELSE IF parsed # Empty THEN parsed
                           ELSE entry.entry_id

\* C13 as amended: the identifier is the trimmed unique_id when that is
\* neither empty nor "none" in any letter case, otherwise the trimmed text of
\* the trailing parenthetical of the title when that is not blank, otherwise
\* the entry_id.
C13_Amended ==
  LET entry == serverEntries[1]
      uniqueId == trim(OrEmpty(entry.unique_id))
      parsed == parseIdFromTitle(entry.title)
  IN HeldIdentifier # Empty
       => HeldIdentifier =
            IF uniqueId # Empty /\ toLowerCase(uniqueId) # <<"n", "o", "n", "e">>
            THEN uniqueId
            ELSE IF parsed # Empty THEN parsed
            ELSE entry.entry_id

\* The card holds the declared identifier of an entry whose title carries
\* another identifier.
C13_Witness ==
  /\ HeldIdentifier = <<"4", "2">>
  /\ parseIdFromTitle(serverEntries[1].title) = <<"7">>

(***************************************************************************)
(* The favorites_entity override: present, absent from hass.states, blank  *)
(***************************************************************************)

OverrideInputs == {Empty, <<" ">>, OverrideEntity, MissingEntity}

OverrideConfigs ==
  {Config(e, f) : e \in {Empty, IdB}, f \in OverrideInputs}

InitOverride ==
  /\ Constructed
  /\ serverEntries = <<EntryA, EntryB>>

NextOverride ==
  \/ \E c \in OverrideConfigs : setConfig(c)
  \/ SetHass(Hass(TRUE, TRUE))
  \/ updated
  \/ \E ok \in BOOLEAN : loadEntriesDone(ok)
  \/ loadEntityRegistryDone(TRUE)
  \/ \E i \in 1..MaxInFlight, ok \in BOOLEAN : resolveDone(i, ok)
  \/ \E e \in {Empty, IdA, IdB} : entryChanged(e)

SpecOverride == InitOverride /\ [][NextOverride]_vars

\* C14: with a favorites_entity configured, the favorites state the card
\* reads is the state of that entity, and no update issues an identity
\* lookup.
C14_OverrideWins ==
  /\ []((hass.defined /\ _config.defined
         /\ trim(_config.favorites_entity) # Empty)
          => _favoritesState = stateOf(trim(_config.favorites_entity)))
  /\ [][(updated /\ trim(_config.favorites_entity) # Empty)
          => ~LookupIssued]_vars

(***************************************************************************)
(* Further properties of the draft side (under SpecFav)                    *)
(***************************************************************************)

\* C15: a submit (with its follow-up favorite mutation) and a favorite
\* deletion are never in flight together, and while either is in flight the
\* flag that makes the card busy and disables both buttons is set.
C15_OneMutationSequence ==
  /\ ~(submitPc # "idle" /\ deletePc # "idle")
  /\ submitPc # "idle" => _submitting
  /\ submitPc = "update" => _updatingFavorite
  /\ deletePc # "idle" => _deletingFavorite

\* A deletion is in flight while the draft holds a plate that could be
\* submitted.
C15_Witness ==
  /\ deletePc = "delete"
  /\ trim(_licensePlateDraft) # Empty
  /\ ~entryLocked

\* C16: when create_reservation, update_favorite, create_favorite or
\* delete_favorite rejects, a notification is emitted and the name draft,
\* the plate draft and the favorite selection stay as they were.
C16_FailureKeepsDraft ==
  [][(reservationDone(FALSE) \/ favoriteMutationDone(FALSE) \/ deleteDone(FALSE))
       => /\ lastNotify' \in {"could_not_submit", "could_not_update_favorite",
                              "could_not_save_favorite",
                              "could_not_remove_favorite"}
          /\ UNCHANGED <<_favoriteDraft, _nameDraft, _licensePlateDraft>>]_vars

\* C17: once create_reservation has succeeded, a rejected update_favorite
\* is reported as could_not_update_favorite and a rejected create_favorite
\* as could_not_save_favorite, and could_not_submit is not notified.
C17_PartialFailureDistinct ==
  /\ [][(submitPc \in {"update", "create"})
          => (lastNotify' # "could_not_submit")]_vars
  /\ [][favoriteMutationDone(FALSE)
          => lastNotify' = (IF call.service = "update_favorite"
                            THEN "could_not_update_favorite"
                            ELSE "could_not_save_favorite")]_vars

\* A submit has ended with the rejection of its update_favorite.
C17_Witness ==
  /\ lastNotify = "could_not_update_favorite"
  /\ submitPc = "idle"

(***************************************************************************)
(* Favorites payloads: what the favorites sensors of the two accounts may  *)
(* report, well formed or not, and in which state                          *)
(***************************************************************************)

PayloadStates ==
  {FavoritesState(<<Mom>>), NoArrayState,
   FavoritesState(<<Mom, NullFavorite>>),
   FavoritesState(<<NumberElement, Mom>>),
   StateWithFavorites("unavailable", <<Mom>>),
   StateWithFavorites("unknown", <<>>),
   AbsentState}

\* The controls exist once render has run to its end.
controlsRendered == rendered /\ ~favoriteAccessThrows(_favorites)

NextPayload ==
  \/ \E c \in PinInputs : setConfig(c)
  \/ \E e \in {DerivedEntity(<<"7">>), RegistryEntity}, s \in PayloadStates :
       FavoritesPushed(e, s)
  \/ updated
  \/ \E e \in {IdA, IdB} : entryChanged(e)
  \/ controlsRendered /\ \E v \in FavoriteOptions : selectFavoriteChange(v)
  \/ controlsRendered /\ \E v \in NameInputs : nameInput(v)
  \/ controlsRendered /\ \E v \in PlateInputs : licensePlateInput(v)

SpecPayload == Settled /\ [][NextPayload]_vars

\* The payload of the favorites source is no well-formed list of records.
MalformedPayload ==
  /\ _favoritesState.present
  /\ \/ ~_favoritesState.isArray
     \/ \E i \in 1..Len(_favoritesState.items) :
          _favoritesState.items[i] \in {NullFavorite, NumberElement}

\* C18: a favorites payload that is no well-formed list of favorite records
\* is used as the empty list, and reading the favorites never throws.
C18_MalformedIsEmpty ==
  /\ MalformedPayload => _favorites = <<>>
  /\ ~favoriteAccessThrows(_favorites)

\* C19: when the favorites source is absent, unavailable or unknown, the
\* favorites list the card uses is empty.
C19_UnavailableIsEmpty ==
  (hass.defined /\ _config.defined /\ _favoritesEntityId # Empty
   /\ \/ ~_favoritesState.present
      \/ _favoritesState.state \in {"unavailable", "unknown"})
    => _favorites = <<>>

(***************************************************************************)
(* Selection by any index value: _selectFavorite takes the value of the    *)
(* change event as it comes, in range or not                               *)
(***************************************************************************)

SelectInputs == FavoriteOptions \cup {<<"4">>, <<"-", "1">>}

NextSelect ==
  \/ \E c \in PinInputs : setConfig(c)
  \/ \E s \in PushedStates : FavoritesPushed(DerivedEntity(<<"7">>), s)
  \/ updated
  \/ \E e \in {IdA, IdB} : entryChanged(e)
  \/ \E v \in SelectInputs : selectFavoriteChange(v)
  \/ \E v \in NameInputs : nameInput(v)
  \/ \E v \in PlateInputs : licensePlateInput(v)

SpecSelect == Settled /\ [][NextSelect]_vars

\* The index value is negative or not below the length of the list.
OutOfRange(favs, indexValue) ==
  /\ indexValue # Empty
  /\ Number(indexValue).finite
  /\ Number(indexValue).value < 0 \/ Number(indexValue).value >= Len(favs)

\* C20: selecting an index that is negative or not below the length of the
\* favorites list leaves the card in the state that selecting "no selection"
\* leaves it in: same name draft, plate draft, effective selection, toggles.
C20_OutOfRangeIsNoSelection ==
  [][(_favoriteDraft' # _favoriteDraft /\ OutOfRange(_favorites, _favoriteDraft'))
       => LET none == selectFavorite(_favorites, draft, Empty)
              next == [none EXCEPT !.favoriteDraft = _favoriteDraft']
          IN /\ _nameDraft' = none.nameDraft
             /\ _licensePlateDraft' = none.licensePlateDraft
             /\ _addToFavorites' = none.addToFavorites
             /\ _updateFavorite' = none.updateFavorite
             /\ selectedFavoriteIndex(_favorites, next) = NoIndex]_vars

(***************************************************************************)
(* Properties of the selection and of the action flags                     *)
(***************************************************************************)

\* C21: no evaluated state has a selected favorite from which the draft
\* differs in both normalized name and normalized plate: the selection is
\* cleared by the next evaluation after the draft came to differ in both.
C21_NoStaleSelection ==
  rendered =>
    ~(hasSelectedFavorite(_favorites, draft)
      /\ selectedFavoriteChangedBoth(_favorites, draft))

\* C22: wherever delete is offered, the selected favorite is the one shown
\* in the draft (same normalized name and plate), so delete_favorite is only
\* issued for that favorite.
C22_DeleteOnlyShownFavorite ==
  (rendered /\ showDeleteFavorite) =>
    favoriteMatchesDraft(selectedFavorite(_favorites, draft), _nameDraft,
                         _licensePlateDraft)

(***************************************************************************)
(* The matcher and the action flags over drafts and lists of every shape:  *)
(* names of whitespace only, plates without a plate character, records     *)
(* without a name, without a plate, without an id, repeated records        *)
(***************************************************************************)

FlagNames == {Empty, <<" ">>, <<"m", "o", "m", " ">>, <<"D", "a", "d">>}

FlagPlates ==
  {Empty, <<"a", "b", "1", "2">>, <<"D", "E", "4", "7">>, <<"-">>,
   <<" ", "a", "-", "b", "-", "1", "2">>}

FlagLists ==
  {FavoritesState(<<Mom2, Mom>>), FavoritesState(<<Unnamed, Mom, MomDup>>),
   FavoritesState(<<Anon>>)}

NextFlags ==
  \/ entryChanged(IdA)
  \/ \E s \in FlagLists : FavoritesPushed(DerivedEntity(<<"7">>), s)
  \/ updated
  \/ \E v \in FavoriteOptions : selectFavoriteChange(v)
  \/ \E v \in FlagNames : nameInput(v)
  \/ \E v \in FlagPlates : licensePlateInput(v)
  \/ \E b \in BOOLEAN : updateFavoriteToggled(b)
  \/ \E b \in BOOLEAN : addToFavoritesToggled(b)
  \/ submit
  \/ \E ok \in BOOLEAN : reservationDone(ok)
  \/ \E ok \in BOOLEAN : favoriteMutationDone(ok)

SpecFlags == Settled /\ [][NextFlags]_vars

\* A favorite of the list equals the draft in normalized name and plate.
SomeFavoriteMatches ==
  \E i \in 1..Len(_favorites) :
    favoriteMatchesDraft(_favorites[i], _nameDraft, _licensePlateDraft)

\* A favorite other than the selected one equals the draft.
OtherFavoriteMatches ==
  \E i \in 1..Len(_favorites) :
    /\ i - 1 # selectedFavoriteIndex(_favorites, draft)
    /\ favoriteMatchesDraft(_favorites[i], _nameDraft, _licensePlateDraft)

\* A valid favorite index is selected.
ValidSelection == hasSelectedFavorite(_favorites, draft)

NameDiffers ==
  normalizeName(OrEmpty(selectedFavorite(_favorites, draft).name))
    # normalizeName(_nameDraft)

PlateDiffers ==
  normalizePlate(OrEmpty(selectedFavorite(_favorites, draft).license_plate))
    # normalizePlate(_licensePlateDraft)

\* C23 as stated: add is shown exactly when name draft and plate draft are
\* both non-empty, no valid favorite is selected or both fields differ from
\* the selected one, and no favorite matches the draft.
C23_Original ==
  _showAddToFavorites <=>
    /\ _nameDraft # Empty /\ _licensePlateDraft # Empty
    /\ ~ValidSelection \/ (NameDiffers /\ PlateDiffers)
    /\ ~SomeFavoriteMatches

\* C23 amended: as stated, with a draft field counting as non-empty when it
\* is non-empty after trimming whitespace.
C23_Amended ==
  _showAddToFavorites <=>
    /\ trim(_nameDraft) # Empty /\ trim(_licensePlateDraft) # Empty
    /\ ~ValidSelection \/ (NameDiffers /\ PlateDiffers)
    /\ ~SomeFavoriteMatches

\* Add is shown for a draft typed over a selection that the list no longer
\* backs.
C23_Witness ==
  /\ rendered /\ _showAddToFavorites
  /\ ValidSelection /\ NameDiffers /\ PlateDiffers

\* C24: update is shown exactly when a valid favorite is selected and the
\* draft differs from it in exactly one of normalized name and normalized
\* plate.
C24_UpdateOnSingleChange ==
  _offerUpdateFavorite <=>
    /\ ValidSelection
    /\ NameDiffers # PlateDiffers

\* Update is shown after an edit of the plate alone.
C24_Witness ==
  rendered /\ _offerUpdateFavorite /\ PlateDiffers /\ ~NameDiffers

\* The draft after the step.
draftAfter ==
  [favoriteDraft |-> _favoriteDraft', nameDraft |-> _nameDraft',
   licensePlateDraft |-> _licensePlateDraft',
   addToFavorites |-> _addToFavorites', updateFavorite |-> _updateFavorite']

\* The step selects a valid favorite of the unchanged list.
SelectsValidFavorite ==
  /\ _favoriteDraft' # _favoriteDraft
  /\ states' = states
  /\ hasSelectedFavorite(_favorites, draftAfter)

\* The selected favorite carries an id: a number, or a string that is not
\* blank.
SelectedHasId ==
  LET id == selectedFavorite(_favorites, draft).id
  IN id.kind = "number" \/ (id.kind = "string" /\ trim(id.text) # Empty)

\* C25 as stated: delete is shown exactly when a valid favorite is selected
\* and neither update nor add is shown; right after a valid favorite is
\* selected, add and update are not shown and delete is.
C25_Original ==
  /\ [](showDeleteFavorite <=>
          (ValidSelection /\ ~_offerUpdateFavorite /\ ~_showAddToFavorites))
  /\ [][SelectsValidFavorite =>
          /\ ~showAddToFavorites(_favorites, draftAfter)
          /\ ~offerUpdateFavorite(_favorites, draftAfter)
          /\ selectedFavoriteId(_favorites, draftAfter) # Empty]_vars

\* C25 amended: as stated, for a selected favorite that carries an id; for
\* one without an id delete is never shown.
C25_Amended ==
  /\ [](showDeleteFavorite <=>
          (ValidSelection /\ SelectedHasId
           /\ ~_offerUpdateFavorite /\ ~_showAddToFavorites))
  /\ [][SelectsValidFavorite =>
          /\ ~showAddToFavorites(_favorites, draftAfter)
          /\ ~offerUpdateFavorite(_favorites, draftAfter)
          /\ (selectedFavoriteId(_favorites, draftAfter) # Empty
                <=> selectedFavorite(_favorites, draftAfter).id.kind
                      \in {"number", "string"})]_vars

\* Delete is shown for the favorite just selected.
C25_Witness ==
  /\ rendered /\ showDeleteFavorite
  /\ ~NameDiffers /\ ~PlateDiffers

\* C26 as stated: the update toggle is enabled exactly when update is shown,
\* name draft and plate draft are both non-empty and no favorite other than
\* the selected one matches the draft; and an update_favorite call is made
\* only from a draft that no other favorite matched.
C26_Original ==
  /\ _canUpdateFavorite <=>
       /\ _offerUpdateFavorite
       /\ _nameDraft # Empty /\ _licensePlateDraft # Empty
       /\ ~OtherFavoriteMatches
  /\ call.service = "update_favorite" =>
       \A i \in 1..Len(submitSnapshot.favorites) :
         i - 1 # submitSnapshot.selectedIndex =>
           ~favoriteMatchesDraft(submitSnapshot.favorites[i],
                                 submitSnapshot.name, submitSnapshot.plate)

\* C26 amended: as stated, with a draft field counting as non-empty when it
\* is non-empty after trimming whitespace.
C26_Amended ==
  /\ _canUpdateFavorite <=>
       /\ _offerUpdateFavorite
       /\ trim(_nameDraft) # Empty /\ trim(_licensePlateDraft) # Empty
       /\ ~OtherFavoriteMatches
  /\ call.service = "update_favorite" =>
       /\ trim(submitSnapshot.name) # Empty
       /\ \A i \in 1..Len(submitSnapshot.favorites) :
            i - 1 # submitSnapshot.selectedIndex =>
              ~favoriteMatchesDraft(submitSnapshot.favorites[i],
                                    submitSnapshot.name, submitSnapshot.plate)

\* Update is shown with its toggle set, and another favorite matches the
\* draft; the submit is under way without an update_favorite to follow.
C26_Witness ==
  /\ _offerUpdateFavorite /\ _updateFavorite /\ OtherFavoriteMatches
  /\ submitPc = "reservation" /\ ~submitLocals.shouldUpdateFavorite

\* The 0-based indexes of the favorites equal to the draft in normalized
\* name and normalized plate.
MatchingIndexes ==
  {i \in 0..(Len(_favorites) - 1) :
     /\ normalizeName(OrEmpty(_favorites[i + 1].name))
          = normalizeName(_nameDraft)
     /\ normalizePlate(OrEmpty(_favorites[i + 1].license_plate))
          = normalizePlate(_licensePlateDraft)}

LowestMatchingIndex ==
  CHOOSE i \in MatchingIndexes : \A j \in MatchingIndexes : i <= j

\* C27 as stated: _findFavoriteIndexByDraft returns the lowest index of a
\* favorite matching the draft, and none when no favorite matches or when a
\* draft field is empty.
C27_Original ==
  LET found == findFavoriteIndexByDraft(_favorites, _nameDraft,
                                        _licensePlateDraft)
  IN IF _nameDraft = Empty \/ _licensePlateDraft = Empty
          \/ MatchingIndexes = {}
     THEN found = NoIndex
     ELSE found = LowestMatchingIndex

\* C27 amended: as stated, with none returned when a draft field is empty
\* after trimming whitespace.
C27_Amended ==
  LET found == findFavoriteIndexByDraft(_favorites, _nameDraft,
                                        _licensePlateDraft)
  IN IF trim(_nameDraft) = Empty \/ trim(_licensePlateDraft) = Empty
          \/ MatchingIndexes = {}
     THEN found = NoIndex
     ELSE found = LowestMatchingIndex

\* Two favorites match the typed draft.
C27_Witness ==
  /\ rendered
  /\ Cardinality(MatchingIndexes) >= 2
  /\ findFavoriteIndexByDraft(_favorites, _nameDraft, _licensePlateDraft)
       = LowestMatchingIndex

\* What matching favorite i (0-based) against its own normalized fields
\* returns.
SelfMatch(i) ==
  findFavoriteIndexByDraft(_favorites,
                           normalizeName(OrEmpty(_favorites[i + 1].name)),
                           normalizePlate(OrEmpty(_favorites[i + 1].license_plate)))

\* C28 as stated: every favorite of the list, matched against its own
\* normalized name and plate, returns its own index.
C28_Original ==
  \A i \in 0..(Len(_favorites) - 1) : SelfMatch(i) = i

\* C28 amended: a favorite whose normalized name and plate are both
\* non-empty, matched against them, returns the lowest index of a favorite
\* with the same normalized fields, which is its own index when no earlier
\* favorite has them; a favorite with an empty normalized field returns none.
C28_Amended ==
  \A i \in 0..(Len(_favorites) - 1) :
    LET name == normalizeName(OrEmpty(_favorites[i + 1].name))
        plate == normalizePlate(OrEmpty(_favorites[i + 1].license_plate))
        same == {j \in 0..(Len(_favorites) - 1) :
                   /\ normalizeName(OrEmpty(_favorites[j + 1].name)) = name
                   /\ normalizePlate(OrEmpty(_favorites[j + 1].license_plate))
                        = plate}
    IN IF name = Empty \/ plate = Empty THEN SelfMatch(i) = NoIndex
       ELSE SelfMatch(i) = CHOOSE j \in same : \A k \in same : j <= k

\* The list in use holds a favorite that returns its own index although its
\* stored fields are not in normalized form.
C28_Witness ==
  \E i \in 0..(Len(_favorites) - 1) :
    /\ SelfMatch(i) = i
    /\ normalizePlate(OrEmpty(_favorites[i + 1].license_plate))
         # OrEmpty(_favorites[i + 1].license_plate)

\* The texts the card normalizes: the two draft fields and the fields of the
\* favorites in use.
NormalizedTexts ==
  {_nameDraft, _licensePlateDraft}
    \cup {OrEmpty(_favorites[i].name) : i \in 1..Len(_favorites)}
    \cup {OrEmpty(_favorites[i].license_plate) : i \in 1..Len(_favorites)}

\* C29: normalizing a normalized name or plate changes nothing.
C29_NormalizationIdempotent ==
  \A x \in NormalizedTexts :
    /\ normalizeName(normalizeName(x)) = normalizeName(x)
    /\ normalizePlate(normalizePlate(x)) = normalizePlate(x)

\* The plate draft holds whitespace and two separators, the name draft
\* trailing whitespace: both change under normalization.
C29_Witness ==
  /\ normalizeName(_nameDraft) # _nameDraft
  /\ Len(normalizePlate(_licensePlateDraft)) + 3 <= Len(_licensePlateDraft)

\* C30: selecting a valid favorite overwrites the name draft with the name
\* of that favorite and the plate draft with the normalized form of its
\* license plate.
C30_SelectNormalizesPlate ==
  [][SelectsValidFavorite =>
       LET favorite == selectedFavorite(_favorites, draftAfter)
       IN /\ _nameDraft' = OrEmpty(favorite.name)
          /\ _licensePlateDraft'
               = normalizePlate(OrEmpty(favorite.license_plate))]_vars

(***************************************************************************)
(* The service calls of one submit (checked under SpecFav)                 *)
(***************************************************************************)

FavoriteMutations == {"update_favorite", "create_favorite"}

\* C32: required service fields are never sent empty: create_reservation
\* carries a license plate that is not empty after trimming, create_favorite
\* and update_favorite carry a name and a license plate, and update_favorite
\* and delete_favorite carry a favorite id.
C32_RequiredFieldsSent ==
  /\ call.service = "create_reservation" => trim(call.license_plate) # Empty
  /\ call.service \in FavoriteMutations =>
       call.name # Empty /\ call.license_plate # Empty
  /\ call.service \in {"update_favorite", "delete_favorite"} =>
       call.favorite_id # Empty

\* An update_favorite is in flight for a favorite picked from a list that
\* also holds favorites without an id.
C32_Witness ==
  /\ call.service = "update_favorite"
  /\ submitPc = "update"
  /\ call.favorite_id # Empty /\ call.name # Empty

\* C35: a favorite mutation is in flight only after the create_reservation of
\* the same submit resolved, and each submit issues at most one favorite
\* mutation: the call before a mutation is the create_reservation, and what
\* follows a mutation is the end of the submit.
C35_MutationAfterReservation ==
  /\ [](call.service \in FavoriteMutations =>
          /\ submitSnapshot.reservation = "resolved"
          /\ submitPc = (IF call.service = "update_favorite"
                         THEN "update" ELSE "create"))
  /\ [][/\ (call' # call /\ call'.service \in FavoriteMutations) =>
             (call.service = "create_reservation" /\ submitPc = "reservation")
        /\ (submitPc \in {"update", "create"} /\ submitPc' # submitPc) =>
             (submitPc' = "idle" /\ call' = NoCall)]_vars

\* A create_favorite is in flight after its create_reservation resolved.
C35_Witness ==
  /\ call.service = "create_favorite"
  /\ submitPc = "create"
  /\ submitSnapshot.reservation = "resolved"

\* C37: the follow-up create_favorite or update_favorite of a submit carries
\* the config_entry_id its create_reservation carried, whatever the user
\* picked or the host pinned while create_reservation was in flight.
C37_SameAccount ==
  call.service \in FavoriteMutations =>
    call.config_entry_id = submitSnapshot.entryId

(***************************************************************************)
(* The account named in the service calls: the host pins an account and    *)
(* takes the pin away again, also while a call is in flight                *)
(***************************************************************************)

CallConfigs == {Config(Empty, Empty), Config(IdB, Empty)}

NextCalls ==
  \/ \E c \in CallConfigs : setConfig(c)
  \/ updated
  \/ \E e \in {IdA, IdB} : entryChanged(e)
  \/ \E v \in FavoriteOptions : selectFavoriteChange(v)
  \/ \E v \in {<<"m", "o", "m", " ">>, <<"D", "a", "d">>} : nameInput(v)
  \/ \E v \in {<<"D", "E", "4", "7">>} : licensePlateInput(v)
  \/ \E b \in BOOLEAN : updateFavoriteToggled(b)
  \/ \E b \in BOOLEAN : addToFavoritesToggled(b)
  \/ submit
  \/ \E ok \in BOOLEAN : reservationDone(ok)
  \/ \E ok \in BOOLEAN : favoriteMutationDone(ok)
  \/ deleteFavorite
  \/ \E ok \in BOOLEAN : deleteDone(ok)

SpecCalls == Settled /\ [][NextCalls]_vars

\* C31: while the loaded account list holds more than one account, no
\* service call is in flight without a config_entry_id.
C31_EntryIdWhenSeveral ==
  (call.service # "none" /\ _entriesLoaded /\ Len(_entries) > 1) =>
    call.config_entry_id # Empty

(***************************************************************************)
(* Drafts that are empty after normalization (checked under SpecFlags)     *)
(***************************************************************************)

\* C36: a draft whose normalized name or normalized plate is empty matches
\* no favorite: no index is found for it, it does not count as equal to an
\* existing favorite and not as a duplicate of another one.
C36_EmptyDraftNeverMatches ==
  (\/ normalizeName(_nameDraft) = Empty
   \/ normalizePlate(_licensePlateDraft) = Empty) =>
    /\ findFavoriteIndexByDraft(_favorites, _nameDraft, _licensePlateDraft)
         = NoIndex
    /\ ~draftMatchesExistingFavorite(_favorites, draft)
    /\ ~draftDuplicatesOtherFavorite(_favorites, draft)

(***************************************************************************)
(* The account listing requests (checked under Spec)                       *)
(***************************************************************************)

\* C39: at most one config_entries/get request of the card is in flight at
\* any time.
C39_OneEntryLoad == entryLoads <= 1

(***************************************************************************)
(* The card editor: setConfig, the account list, the account picker and    *)
(* the config-changed events it dispatches to the host                     *)
(***************************************************************************)

\* config-changed events followed per behaviour.
MaxDispatched == 4

IdC == <<"C">>

\* An account without a declared identifier and without one in its title.
EntryPlain == [entry_id |-> IdC, title |-> <<"c">>, unique_id |-> Undef]

\* The configuration _applyEntry stores and dispatches for entryId (Empty
\* for undefined).
applyEntry(config, entries, entryId) ==
  LET found == {i \in 1..Len(entries) : entries[i].entry_id = entryId}
      identifier ==
        IF entryId = Empty \/ found = {} THEN Empty
        ELSE LET entry == entries[CHOOSE i \in found : \A j \in found : i <= j]
             IN IF declaredIdentifier(entry) # Empty
                THEN declaredIdentifier(entry)
                ELSE parseIdFromTitle(entry.title)
      slugId == IF identifier = Empty THEN Empty ELSE slugifyId(identifier)
  IN [config EXCEPT
        !.config_entry_id = entryId,
        !.favorites_entity =
           IF slugId = Empty THEN Empty ELSE DerivedEntity(slugId)]

\* _selectDefaultEntryIfNeeded: whether it calls _applyEntry, and for which
\* account.
defaultEntry(config, entries, entriesLoaded) ==
  IF ~config.defined \/ ~entriesLoaded \/ Len(entries) = 0
  THEN [apply |-> FALSE, entryId |-> Empty]
  ELSE IF config.config_entry_id # Empty
  THEN [apply |-> config.favorites_entity = Empty,
        entryId |-> config.config_entry_id]
  ELSE IF Len(entries) # 1 THEN [apply |-> FALSE, entryId |-> Empty]
  ELSE [apply |-> TRUE, entryId |-> entries[1].entry_id]

onlyEditorChanges == UNCHANGED <<reservationCardVars, activeVars>>

\* The editor e after an assignment, then _selectDefaultEntryIfNeeded; pending
\* are the events the host has still to handle.
selectDefaultEntryIfNeeded(e, pending) ==
  LET d == defaultEntry(e._config, e._entries, e._entriesLoaded)
      applied == applyEntry(e._config, e._entries, d.entryId)
  IN IF d.apply
     THEN /\ dispatched < MaxDispatched
          /\ editor' = [e EXCEPT !._config = applied]
          /\ emitted' = Append(pending, applied)
          /\ dispatched' = dispatched + 1
     ELSE /\ editor' = e
          /\ emitted' = pending
          /\ UNCHANGED dispatched

\* The host opens the editor on a card configuration.
editorSetConfig(config) ==
  /\ selectDefaultEntryIfNeeded([editor EXCEPT !._config = config], emitted)
  /\ UNCHANGED editorLoads
  /\ onlyEditorChanges

\* The host handles a config-changed event by passing its configuration back
\* through setConfig.
hostEcho ==
  /\ emitted # <<>>
  /\ selectDefaultEntryIfNeeded([editor EXCEPT !._config = Head(emitted)],
                                Tail(emitted))
  /\ UNCHANGED editorLoads
  /\ onlyEditorChanges

\* The host assigns hass, and the update that follows: updated() loads the
\* account list while it is not loaded.
editorSetHass(h) ==
  /\ h # editor.hass
  /\ IF editor._entriesLoaded
     THEN /\ editor' = [editor EXCEPT !.hass = h]
          /\ UNCHANGED editorLoads
     ELSE IF ~h.is_admin
     THEN /\ editor' = [editor EXCEPT !.hass = h, !._entriesLoaded = TRUE]
          /\ UNCHANGED editorLoads
     ELSE /\ editorLoads < MaxInFlight
          /\ editor' = [editor EXCEPT !.hass = h]
          /\ editorLoads' = editorLoads + 1
  /\ UNCHANGED <<emitted, dispatched>>
  /\ onlyEditorChanges

\* config_entries/get settled: ok with the list the host holds, or rejected.
editorLoadEntriesDone(ok, list) ==
  /\ editorLoads > 0
  /\ editorLoads' = editorLoads - 1
  /\ selectDefaultEntryIfNeeded(
       [editor EXCEPT !._entries = IF ok THEN list ELSE <<>>,
                      !._entriesLoaded = TRUE], emitted)
  /\ onlyEditorChanges

\* _entryChanged: a change event of the editor's account picker.
editorEntryChanged(entryId) ==
  /\ editor.hass.defined
  /\ editor._config.defined
  /\ entryId \in EntryIds(editor._entries) \cup {Empty}
  /\ entryId # editor._config.config_entry_id
  /\ dispatched < MaxDispatched
  /\ LET applied == applyEntry(editor._config, editor._entries, entryId)
     IN /\ editor' = [editor EXCEPT !._config = applied]
        /\ emitted' = Append(emitted, applied)
  /\ dispatched' = dispatched + 1
  /\ UNCHANGED editorLoads
  /\ onlyEditorChanges

EditorLists == {<<EntryA>>, <<EntryPlain>>, <<EntryA, EntryB>>}

EditorConfigs ==
  {Config(Empty, Empty), Config(IdB, Empty), Config(IdC, Empty),
   Config(IdA, DerivedEntity(<<"7">>))}

NextEditor ==
  \/ \E c \in EditorConfigs : editorSetConfig(c)
  \/ hostEcho
  \/ \E h \in HassInputs : editorSetHass(h)
  \/ \E ok \in BOOLEAN, list \in EditorLists : editorLoadEntriesDone(ok, list)
  \/ \E e \in {Empty, IdA, IdB, IdC} : editorEntryChanged(e)

SpecEditor == Init /\ [][NextEditor]_vars

\* C40: the exchange between the editor and a host that passes every
\* dispatched configuration back through setConfig comes to an end: no step
\* dispatches a config-changed event and leaves the editor and the events
\* still to handle exactly as they were, which would repeat without end.
C40_ExchangeTerminates ==
  [][dispatched' > dispatched => <<editor', emitted'>> # <<editor, emitted>>]_vars

(***************************************************************************)
(* The notification of a derived override (checked under Spec)             *)
(***************************************************************************)

\* C34: every step in which the card derives a new favorites override for an
\* account (a new identifier is resolved, from the account list or by a
\* lookup, while no override is configured) dispatches a config-changed
\* event.
C34_DerivedOverrideNotified ==
  [][(/\ trim(_config'.favorites_entity) = Empty
      /\ _resolvedIdentifier' # Empty
      /\ _resolvedIdentifier' # _resolvedIdentifier)
       => dispatched' > dispatched]_vars

(***************************************************************************)
(* The active reservations card: the reservations it lists and the         *)
(* delete_reservation calls of its End buttons                             *)
(***************************************************************************)

ReservationsEntity(slugId) ==
  <<"sensor.visitor_parking_">> \o slugId \o <<"_reservations">>

Reservation(id, plate) ==
  [id |-> [kind |-> "number", text |-> id], license_plate |-> plate]

\* A reservation the provider reports without an id.
ReservationWithoutId ==
  [id |-> [kind |-> "undefined", text |-> Empty], license_plate |-> <<"X">>]

\* hass.states as the active card sees it, in the order of Object.entries:
\* account A holds reservations 1 and 2, account B a reservation that is
\* also numbered 1 and one without an id.
CardEntityIds ==
  <<ReservationsEntity(<<"7">>), DerivedEntity(<<"7">>),
    ReservationsEntity(<<"4", "2">>)>>

CardStates ==
  [e \in {CardEntityIds[i] : i \in 1..Len(CardEntityIds)} |->
     IF e = ReservationsEntity(<<"7">>)
     THEN [isArray |-> TRUE,
           reservations |-> <<Reservation(<<"1">>, <<"A", "1">>),
                              Reservation(<<"2">>, <<"A", "2">>)>>]
     ELSE IF e = ReservationsEntity(<<"4", "2">>)
     THEN [isArray |-> TRUE,
           reservations |-> <<Reservation(<<"1">>, <<"B", "1">>),
                              ReservationWithoutId>>]
     ELSE [isArray |-> FALSE, reservations |-> <<>>]]

\* What config/entity_registry/list answers for the reservation sensors.
CardRegistry ==
  <<[entity_id |-> ReservationsEntity(<<"7">>), config_entry_id |-> IdA],
    [entity_id |-> ReservationsEntity(<<"4", "2">>), config_entry_id |-> IdB]>>

\* _reservationsEntityId: only config.entity is read.
reservationsEntityId(config) ==
  IF ~config.defined THEN Empty ELSE trim(config.entity)

\* _entryFromEntityId(...).entryId, Empty for undefined.
entryFromEntityId(registry, entityId) ==
  LET found == {i \in 1..Len(registry) : registry[i].entity_id = entityId}
  IN IF found = {} THEN Empty
     ELSE registry[CHOOSE i \in found : \A j \in found : i <= j].config_entry_id

isReservationsSensor(entityId) ==
  /\ Head(entityId) = "sensor.visitor_parking_"
  /\ entityId[Len(entityId)] = "_reservations"

\* The rows of one entity: each reservation with the account it is tagged
\* with and (for the properties) the entity it comes from.
rowsOf(entityId, entryId) ==
  [i \in 1..Len(CardStates[entityId].reservations) |->
     [reservation |-> CardStates[entityId].reservations[i],
      entryId |-> entryId, entity |-> entityId]]

RECURSIVE allReservations(_, _)
allReservations(card, entityIds) ==
  IF entityIds = <<>> THEN <<>>
  ELSE LET entityId == Head(entityIds)
           fallbackEntryId ==
             IF card._entriesLoaded /\ Len(card._entries) = 1
             THEN card._entries[1].entry_id ELSE Empty
           entryInfo == entryFromEntityId(card._entityRegistry, entityId)
           entryId == IF entryInfo # Empty THEN entryInfo ELSE fallbackEntryId
       IN (IF isReservationsSensor(entityId) /\ CardStates[entityId].isArray
           THEN rowsOf(entityId, entryId) ELSE <<>>)
          \o allReservations(card, Tail(entityIds))

\* _reservations ?? [] as render lists it.
reservations(card) ==
  LET override == reservationsEntityId(card._config)
  IN IF override # Empty
     THEN IF override \in DOMAIN CardStates /\ CardStates[override].isArray
          THEN rowsOf(override, Empty) ELSE <<>>
     ELSE IF ~card.hass.defined THEN <<>>
     ELSE allReservations(card, CardEntityIds)

\* _reservationId: Empty for null.
reservationId(reservation) ==
  IF reservation.id.kind = "undefined" THEN Empty ELSE trim(reservation.id.text)

\* The End button of every row stays enabled while its call is in flight.
neverEnding(card, id) == FALSE

ending(card, id) == id # Empty /\ id \in card._endingReservationIds

\* .disabled of the End button of a row is false.
canEndRow(card, row) ==
  LET id == reservationId(row.reservation)
      allowEndWithoutEntry == card._entriesLoaded /\ Len(card._entries) <= 1
      canEnd == IF reservationsEntityId(card._config) # Empty THEN id # Empty
                ELSE id # Empty /\ (allowEndWithoutEntry \/ row.entryId # Empty)
  IN canEnd /\ ~ending(card, id)

activeRendered ==
  activeCard.hass.defined /\ activeCard._config.defined
    /\ ~activeCard.updatePending

onlyActiveChanges == UNCHANGED <<reservationCardVars, editorVars>>

activeSetConfig(config) ==
  /\ config # activeCard._config
  /\ activeCard' = [activeCard EXCEPT !._config = config,
                                      !.updatePending = TRUE]
  /\ UNCHANGED <<activeLoads, deletes>>
  /\ onlyActiveChanges

activeSetHass(h) ==
  /\ h # activeCard.hass
  /\ activeCard' = [activeCard EXCEPT !.hass = h, !.updatePending = TRUE]
  /\ UNCHANGED <<activeLoads, deletes>>
  /\ onlyActiveChanges

\* updated() of the active card.
activeUpdated ==
  /\ activeCard.updatePending
  /\ IF ~activeCard.hass.defined \/ ~activeCard._config.defined
     THEN /\ activeCard' = [activeCard EXCEPT !.updatePending = FALSE]
          /\ UNCHANGED activeLoads
     ELSE LET privileged == activeCard.hass.is_admin /\ activeCard.hass.callWS
              loadEntries == ~activeCard._entriesLoaded /\ privileged
              loadRegistry == ~activeCard._entityRegistryLoaded /\ privileged
              entriesLoaded == activeCard._entriesLoaded \/ ~privileged
              registryLoaded == activeCard._entityRegistryLoaded \/ ~privileged
          IN /\ loadEntries => activeLoads.entries < MaxInFlight
             /\ loadRegistry => activeLoads.registry < MaxInFlight
             /\ activeLoads' =
                  [entries |-> activeLoads.entries
                                 + (IF loadEntries THEN 1 ELSE 0),
                   registry |-> activeLoads.registry
                                  + (IF loadRegistry THEN 1 ELSE 0)]
             /\ activeCard' =
                  [activeCard EXCEPT
                     !._entriesLoaded = entriesLoaded,
                     !._entityRegistryLoaded = registryLoaded,
                     !.updatePending =
                        \/ entriesLoaded # activeCard._entriesLoaded
                        \/ registryLoaded # activeCard._entityRegistryLoaded]
  /\ UNCHANGED deletes
  /\ onlyActiveChanges

\* config_entries/get of the active card settled.
activeLoadEntriesDone(ok, list) ==
  /\ activeLoads.entries > 0
  /\ activeLoads' = [activeLoads EXCEPT !.entries = @ - 1]
  /\ activeCard' = [activeCard EXCEPT
                      !._entries = IF ok THEN list ELSE <<>>,
                      !._entriesLoaded = TRUE, !.updatePending = TRUE]
  /\ UNCHANGED deletes
  /\ onlyActiveChanges

\* config/entity_registry/list of the active card settled.
activeLoadEntityRegistryDone(ok) ==
  /\ activeLoads.registry > 0
  /\ activeLoads' = [activeLoads EXCEPT !.registry = @ - 1]
  /\ activeCard' = [activeCard EXCEPT
                      !._entityRegistry = IF ok THEN CardRegistry ELSE <<>>,
                      !._entityRegistryLoaded = TRUE, !.updatePending = TRUE]
  /\ UNCHANGED deletes
  /\ onlyActiveChanges

\* A click on the End button of row i: _endReservation up to its await.
endReservation(i) ==
  /\ activeRendered
  /\ i \in 1..Len(reservations(activeCard))
  /\ LET row == reservations(activeCard)[i]
         reservationId_ == reservationId(row.reservation)
     IN /\ canEndRow(activeCard, row)
        /\ ~(row.entryId = Empty /\ activeCard._entriesLoaded
               /\ Len(activeCard._entries) > 1)
        /\ Len(deletes) < MaxInFlight
        /\ activeCard' =
             [activeCard EXCEPT
                !._endingReservationIds = @ \cup {reservationId_},
                !.updatePending = TRUE]
        /\ deletes' = Append(deletes, [reservation_id |-> reservationId_,
                                       config_entry_id |-> row.entryId])
  /\ UNCHANGED activeLoads
  /\ onlyActiveChanges

\* delete_reservation call i settled, resolved or rejected: the finally block.
endReservationDone(i, ok) ==
  /\ i \in 1..Len(deletes)
  /\ activeCard' =
       [activeCard EXCEPT
          !._endingReservationIds = @ \ {deletes[i].reservation_id},
          !.updatePending = TRUE]
  /\ deletes' = [j \in 1..(Len(deletes) - 1) |->
                   IF j < i THEN deletes[j] ELSE deletes[j + 1]]
  /\ UNCHANGED activeLoads
  /\ onlyActiveChanges

ActiveConfigs ==
  {CardConfig(Empty, Empty), CardConfig(IdB, Empty),
   CardConfig(IdB, ReservationsEntity(<<"4", "2">>)),
   CardConfig(Empty, ReservationsEntity(<<"7">>))}

ActiveLists == {<<EntryA>>, <<EntryA, EntryB>>}

NextActive ==
  \/ \E c \in ActiveConfigs : activeSetConfig(c)
  \/ \E h \in HassInputs : activeSetHass(h)
  \/ activeUpdated
  \/ \E ok \in BOOLEAN, list \in ActiveLists : activeLoadEntriesDone(ok, list)
  \/ \E ok \in BOOLEAN : activeLoadEntityRegistryDone(ok)
  \/ \E i \in 1..4 : endReservation(i)
  \/ \E i \in 1..MaxInFlight, ok \in BOOLEAN : endReservationDone(i, ok)

SpecActive == Init /\ [][NextActive]_vars

\* C38: _endingReservationIds holds exactly the ids of the reservations
\* whose delete_reservation call is in flight.
C38_EndingIdsAreInFlight ==
  activeCard._endingReservationIds
    = {deletes[i].reservation_id : i \in 1..Len(deletes)}

\* Two delete_reservation calls for different reservations overlap.
C38_Witness ==
  /\ Len(deletes) = 2
  /\ deletes[1].reservation_id # deletes[2].reservation_id
  /\ activeCard._endingReservationIds
       = {deletes[1].reservation_id, deletes[2].reservation_id}

\* The reservation sensors of account entryId, and of every account for
\* Empty, as the entity registry of the host assigns them.
SensorsOfAccount(entryId) ==
  {CardRegistry[i].entity_id :
     i \in {j \in 1..Len(CardRegistry) :
              entryId = Empty \/ CardRegistry[j].config_entry_id = entryId}}

\* C33: a card configured without an entity override lists the reservations
\* of every account when config_entry_id is omitted and only those of the
\* given account when config_entry_id is set.
C33_ListsConfiguredAccount ==
  (activeRendered /\ reservationsEntityId(activeCard._config) = Empty) =>
    {reservations(activeCard)[i].entity :
       i \in 1..Len(reservations(activeCard))}
      = SensorsOfAccount(activeCard._config.config_entry_id)

=============================================================================
